---- MODULE Spec2Model ----
(***************************************************************************)
(* The ELF decoder of elf-explorer (elf-parser.ts: Reader, readCString,    *)
(* parseElf) as a state machine over a byte buffer.                        *)
(*                                                                         *)
(* Representation of values:                                               *)
(*   - a byte, a u8 and a u16 are integers;                                *)
(*   - a u32, a u64 and every address-sized value is the sequence of its   *)
(*     bytes in order of significance, least significant first (so the     *)
(*     value v of 0x0102 read as a u32 is <<2, 1, 0, 0>>); two values are  *)
(*     equal iff their sequences are equal;                                *)
(*   - a string is the sequence of its UTF-16 code units;                  *)
(*   - buffer offsets are 0-based as in the source: byte p is buf[p + 1].  *)
(***************************************************************************)
EXTENDS Integers, Sequences, FiniteSets, TLC

VARIABLES
    tree,                 \* the items buildTree made of the returned model
    data,                 \* the buffer handed to parseElf / to the Reader
    pc,                   \* position inside parseElf
    outcome,              \* how the call ended: "none" while it runs
    rd,                   \* the Reader object r: [is64, isLE, pos]
    call,                 \* the last Reader call made directly by a client
    header,               \* locals of parseElf, in declaration order
    programHeaders,
    sectionHeaders,
    symbols,
    dynamicEntries,
    dynamicSectionOffset,
    relocations,
    stringTables,
    doc,                  \* the ElfDocument, the file it was read from
    ed,                   \* the custom editor: its webview, messages, undo stack
    ui                    \* the tree view's click bookkeeping

\* the state outside parseElf and buildTree
edVars == <<doc, ed, ui>>

vars == <<edVars, tree, data, pc, outcome, rd, call, header, programHeaders, sectionHeaders,
          symbols, dynamicEntries, dynamicSectionOffset, relocations,
          stringTables>>

parseVars == <<tree, header, programHeaders, sectionHeaders, symbols, dynamicEntries,
               dynamicSectionOffset, relocations, stringTables>>

-----------------------------------------------------------------------------
(* Bounds of the model *)

\* Number(x) of a value at or above NumCap is NumCap: such values are only
\* compared with buffer and table lengths, all far below it.
NumCap == 1048576
\* sizes of the tables of the generated files
NPh == 2
NSym == 3
NRel == 3
NDyn == 3
\* how many bytes are cut from the end of a generated file
MaxCut == 2
\* buffer length and cursor range of the Reader exercised alone
RdLen == 9

-----------------------------------------------------------------------------
(* Small helpers *)

Min(a, b) == IF a < b THEN a ELSE b

Reverse(s) == [k \in 1..Len(s) |-> s[Len(s) + 1 - k]]

\* byte p of the buffer (0-based)
At(buf, p) == buf[p + 1]

None == "none"
\* the JavaScript value undefined
Undefined == -1

\* Number(v) of a byte-sequence value, capped at NumCap
RECURSIVE NumFrom(_, _)
NumFrom(d, k) ==
    IF k > Len(d) THEN 0 ELSE Min(d[k] + 256 * NumFrom(d, k + 1), NumCap)

Num(d) == NumFrom(d, 1)

IsZero(d) == \A k \in 1..Len(d) : d[k] = 0

-----------------------------------------------------------------------------
(* Optional values and signed values *)

\* an optional field: Nothing for undefined, Some(x) for a value
Nothing == <<>>
Some(x) == <<x>>

RECURSIVE IncFrom(_, _)
IncFrom(d, k) ==
    IF k > Len(d) THEN d
    ELSE IF d[k] = 255 THEN IncFrom([d EXCEPT ![k] = 0], k + 1)
    ELSE [d EXCEPT ![k] = d[k] + 1]

\* the magnitude of a negative two's-complement value
Negate(d) == IncFrom([k \in 1..Len(d) |-> 255 - d[k]], 1)

\* readBigInt64LE/BE, readInt32LE/BE: the bytes read as two's complement
ToSigned(d) ==
    IF d[Len(d)] >= 128 THEN [neg |-> TRUE, mag |-> Negate(d)]
    ELSE [neg |-> FALSE, mag |-> d]

SignedIsZero(v) == ~v.neg /\ IsZero(v.mag)

-----------------------------------------------------------------------------
(* class Reader.  A call returns [thrown, val, pos]: whether it threw, the    *)
(* value returned, and the cursor after it.  Results that are used more than *)
(* once are handed on as parameters.                                         *)

\* the bytes of a w-byte read at pos, least significant first
ReadDigits(buf, pos, w, isLE) ==
    [k \in 1..w |-> IF isLE THEN At(buf, pos + k - 1) ELSE At(buf, pos + w - k)]

\* Buffer.readUInt16LE and its siblings throw a RangeError unless
\* 0 <= offset <= length - width
InRange(buf, pos, w) == pos >= 0 /\ pos + w <= Len(buf)

\* a faulty Width: every address-sized read is 4 bytes wide
WidthNarrow(kind, is64) ==
    CASE kind = "u8" -> 1
      [] kind = "u16" -> 2
      [] kind = "u32" -> 4
      [] kind = "u64" -> 8
      [] OTHER -> 4

Width(kind, is64) ==
    CASE kind = "u8" -> 1
      [] kind = "u16" -> 2
      [] kind = "u32" -> 4
      [] kind = "u64" -> 8
      [] OTHER -> IF is64 THEN 8 ELSE 4     \* addr, off, xword, sxword

\* u8(): this.buf[this.pos++] -- no bounds check; an index outside the buffer
\* yields undefined and the cursor still advances
ReadU8(buf, r) ==
    [thrown |-> FALSE,
     val |-> IF r.pos >= 0 /\ r.pos < Len(buf) THEN At(buf, r.pos) ELSE Undefined,
     pos |-> r.pos + 1]

\* readUInt16LE / readUInt16BE
U16At(buf, pos, isLE) ==
    IF isLE THEN At(buf, pos) + 256 * At(buf, pos + 1)
    ELSE At(buf, pos + 1) + 256 * At(buf, pos)

\* u16()
ReadU16(buf, r) ==
    IF InRange(buf, r.pos, 2)
    THEN [thrown |-> FALSE, val |-> U16At(buf, r.pos, r.isLE), pos |-> r.pos + 2]
    ELSE [thrown |-> TRUE, val |-> Undefined, pos |-> r.pos]

\* u32(), u64(): the cursor moves only after the read
ReadWide(buf, r, w) ==
    IF InRange(buf, r.pos, w)
    THEN [thrown |-> FALSE, val |-> ReadDigits(buf, r.pos, w, r.isLE),
          pos |-> r.pos + w]
    ELSE [thrown |-> TRUE, val |-> Undefined, pos |-> r.pos]

AsSigned(t) == IF t.thrown THEN t ELSE [t EXCEPT !.val = ToSigned(t.val)]

\* sxword(): the same bytes, read as a signed value
ReadSigned(buf, r) == AsSigned(ReadWide(buf, r, Width("sxword", r.is64)))

\* one call of the Reader method named kind
Read(buf, r, kind) ==
    CASE kind = "u8" -> ReadU8(buf, r)
      [] kind = "u16" -> ReadU16(buf, r)
      [] kind = "sxword" -> ReadSigned(buf, r)
      [] OTHER -> ReadWide(buf, r, Width(kind, r.is64))

\* seek(pos)
Seek(r, p) == [r EXCEPT !.pos = p]

\* the calls kinds[1], kinds[2], ... made one after another from the cursor;
\* an exception ends the sequence.  vals are the values read so far.
RECURSIVE ReadFrom(_, _, _, _)
RECURSIVE ReadStep(_, _, _, _, _)
ReadFrom(buf, r, kinds, vals) ==
    IF Len(vals) = Len(kinds)
    THEN [thrown |-> FALSE, vals |-> vals, pos |-> r.pos]
    ELSE ReadStep(buf, r, kinds, vals, Read(buf, r, kinds[Len(vals) + 1]))

ReadStep(buf, r, kinds, vals, first) ==
    IF first.thrown
    THEN [thrown |-> TRUE, vals |-> <<>>, pos |-> first.pos]
    ELSE ReadFrom(buf, Seek(r, first.pos), kinds, Append(vals, first.val))

ReadSeq(buf, r, kinds) == ReadFrom(buf, r, kinds, <<>>)

-----------------------------------------------------------------------------
(* readCString *)

\* buf.indexOf(0, offset), or the buffer length where the source gets -1
IndexOfNul(buf, p) ==
    IF \E q \in p..(Len(buf) - 1) : At(buf, q) = 0
    THEN CHOOSE q \in p..(Len(buf) - 1) :
             At(buf, q) = 0 /\ \A k \in p..(q - 1) : At(buf, k) # 0
    ELSE Len(buf)

\* byte p lies before the end to and has a value in lo..hi
InSeq(buf, p, to, lo, hi) == p < to /\ At(buf, p) >= lo /\ At(buf, p) <= hi

\* the UTF-16 code units of a code point
Units(cp) ==
    IF cp < 65536 THEN <<cp>>
    ELSE <<55296 + ((cp - 65536) \div 1024), 56320 + ((cp - 65536) % 1024)>>

\* the values the second byte of a well-formed sequence may take after lead b
SecondLo(b) == IF b = 224 THEN 160 ELSE IF b = 240 THEN 144 ELSE 128
SecondHi(b) == IF b = 237 THEN 159 ELSE IF b = 244 THEN 143 ELSE 191

\* One step of buf.toString('utf8', from, to) at position from < to: the
\* number n of bytes consumed and the code units u produced.  A well-formed
\* sequence gives its code point; otherwise the longest prefix of a
\* well-formed sequence found there (at least one byte) gives one U+FFFD
\* (65533).
Utf8Step(buf, from, to) ==
    LET b == At(buf, from)
    IN IF b < 128 THEN [n |-> 1, u |-> <<b>>]
       ELSE IF b < 194 \/ b > 244 \/ ~InSeq(buf, from + 1, to, SecondLo(b), SecondHi(b))
       THEN [n |-> 1, u |-> <<65533>>]
       ELSE IF b < 224
       THEN [n |-> 2, u |-> <<(b - 192) * 64 + (At(buf, from + 1) - 128)>>]
       ELSE IF ~InSeq(buf, from + 2, to, 128, 191)
       THEN [n |-> 2, u |-> <<65533>>]
       ELSE IF b < 240
       THEN [n |-> 3, u |-> <<(b - 224) * 4096 + (At(buf, from + 1) - 128) * 64
                               + (At(buf, from + 2) - 128)>>]
       ELSE IF ~InSeq(buf, from + 3, to, 128, 191)
       THEN [n |-> 3, u |-> <<65533>>]
       ELSE [n |-> 4, u |-> Units((b - 240) * 262144 + (At(buf, from + 1) - 128) * 4096
                                  + (At(buf, from + 2) - 128) * 64
                                  + (At(buf, from + 3) - 128))]

\* buf.toString('utf8', from, to) as UTF-16 code units
RECURSIVE Utf8(_, _, _)
RECURSIVE Utf8Next(_, _, _, _)
Utf8(buf, from, to) ==
    IF from >= to THEN <<>> ELSE Utf8Next(buf, from, to, Utf8Step(buf, from, to))

Utf8Next(buf, from, to, st) == st.u \o Utf8(buf, from + st.n, to)

readCString(buf, offset) ==
    IF offset < 0 \/ offset >= Len(buf) THEN <<>>
    ELSE Utf8(buf, offset, IndexOfNul(buf, offset))

-----------------------------------------------------------------------------
(* parseElf: the layouts, as the order of the Reader calls *)

HeaderIdentKinds == <<"u8", "u8">>

HeaderKinds ==
    <<"u16", "u16", "u32", "addr", "off", "off", "u32",
      "u16", "u16", "u16", "u16", "u16", "u16">>

PhKinds(is64) ==
    IF is64
    THEN <<"u32", "u32", "off", "addr", "addr", "xword", "xword", "xword">>
    ELSE <<"u32", "off", "addr", "addr", "xword", "xword", "u32", "xword">>

\* a faulty PhRecord: the 64-bit order of the fields for both widths
PhRecordFlagsSecond(is64, v) ==
    [type |-> v[1], flags |-> v[2], offset |-> v[3], vaddr |-> v[4],
     paddr |-> v[5], filesz |-> v[6], memsz |-> v[7], align |-> v[8]]

PhRecord(is64, v) ==
    IF is64
    THEN [type |-> v[1], flags |-> v[2], offset |-> v[3], vaddr |-> v[4],
          paddr |-> v[5], filesz |-> v[6], memsz |-> v[7], align |-> v[8]]
    ELSE [type |-> v[1], flags |-> v[7], offset |-> v[2], vaddr |-> v[3],
          paddr |-> v[4], filesz |-> v[5], memsz |-> v[6], align |-> v[8]]

ShKinds ==
    <<"u32", "u32", "xword", "addr", "off", "xword", "u32", "u32", "xword", "xword">>

ShRecord(v) ==
    [nameIdx |-> v[1], name |-> <<>>, type |-> v[2], flags |-> v[3],
     addr |-> v[4], offset |-> v[5], size |-> v[6], link |-> v[7],
     info |-> v[8], addralign |-> v[9], entsize |-> v[10]]

SymKinds(is64) ==
    IF is64
    THEN <<"u32", "u8", "u8", "u16", "addr", "xword">>
    ELSE <<"u32", "addr", "xword", "u8", "u8", "u16">>

SymRecord(is64, v, off, entSize) ==
    IF is64
    THEN [nameIdx |-> v[1], name |-> <<>>, value |-> v[5], size |-> v[6],
          info |-> v[2], other |-> v[3], shndx |-> v[4],
          fileOffset |-> off, entSize |-> entSize]
    ELSE [nameIdx |-> v[1], name |-> <<>>, value |-> v[2], size |-> v[3],
          info |-> v[4], other |-> v[5], shndx |-> v[6],
          fileOffset |-> off, entSize |-> entSize]

DynKinds == <<"sxword", "xword">>

RelKinds(isRela) ==
    IF isRela THEN <<"addr", "xword", "sxword">> ELSE <<"addr", "xword">>

\* the entry sizes substituted for a declared entry size of zero
SymEntDefault(is64) == IF is64 THEN 24 ELSE 16
DynEntDefault(is64) == IF is64 THEN 16 ELSE 8
RelEntDefault(is64, isRela) ==
    IF is64 THEN (IF isRela THEN 24 ELSE 16) ELSE (IF isRela THEN 12 ELSE 8)

\* Number(sh.entsize) || default
EntSize(sh, default) == IF Num(sh.entsize) = 0 THEN default ELSE Num(sh.entsize)

\* a faulty SymIdx: the low-order byte of a 32-bit info
SymIdxLowByte(is64, info) ==
    IF is64 THEN Num(SubSeq(info, 5, Len(info))) ELSE info[1]

\* const symIdx = is64 ? Number(info >> 32n) : Number(info >> 8n)
SymIdx(is64, info) ==
    IF is64 THEN Num(SubSeq(info, 5, Len(info))) ELSE Num(SubSeq(info, 2, Len(info)))

\* the names given to a symbol table whose section name is empty
DotSymtab == <<46, 115, 121, 109, 116, 97, 98>>
DotDynsym == <<46, 100, 121, 110, 115, 121, 109>>

-----------------------------------------------------------------------------
(* parseElf: the steps.  Each returns [thrown, pos, out]: whether a read     *)
(* threw, the Reader's cursor afterwards, and what the step produced.         *)

\* a faulty TooShort: the length test off by one
TooShortOffByOne(buf) == Len(buf) < 51

\* if (data.length < 52) return null
TooShort(buf) == Len(buf) < 52

\* the magic test of line 702
BadMagic(buf) ==
    At(buf, 0) # 127 \/ At(buf, 1) # 69 \/ At(buf, 2) # 76 \/ At(buf, 3) # 70

\* const is64 = elfClass === 2; const isLE = elfData === 1; new Reader(...)
NewReader(buf) == [is64 |-> At(buf, 4) = 2, isLE |-> At(buf, 5) = 1, pos |-> 0]

\* lines 729-732; i are the values read from offset 6, v those from offset 16
HeaderRecord(buf, i, v) ==
    [class |-> At(buf, 4), data |-> At(buf, 5), version |-> i[1], osabi |-> i[2],
     type |-> v[1], machine |-> v[2], entry |-> v[4], phoff |-> v[5],
     shoff |-> v[6], flags |-> v[7], ehsize |-> v[8], phentsize |-> v[9],
     phnum |-> v[10], shentsize |-> v[11], shnum |-> v[12], shstrndx |-> v[13]]

HeaderOf(buf, a, b) ==
    [thrown |-> b.thrown, pos |-> b.pos,
     out |-> IF b.thrown THEN Nothing ELSE Some(HeaderRecord(buf, a.vals, b.vals))]

\* r.seek(6) ... r.seek(16) ... : the header's reads, lines 711-727
ReadHeader(buf, r) ==
    HeaderOf(buf, ReadSeq(buf, Seek(r, 6), HeaderIdentKinds),
                  ReadSeq(buf, Seek(r, 16), HeaderKinds))

\* for (let i = 0; i * unit < limit; i++) { r.seek(base + i * stride); <kinds> }
\* with L = [base, stride, kinds, unit, limit].  The rows read so far, each
\* with the offset it was read from; an exception in any row ends the loop
\* and the call.
RECURSIVE ReadRows(_, _, _, _)
RECURSIVE RowStep(_, _, _, _, _, _)
ReadRows(buf, r, L, rows) ==
    IF ~(Len(rows) * L.unit < L.limit)
    THEN [thrown |-> FALSE, rows |-> rows, pos |-> r.pos]
    ELSE RowStep(buf, r, L, rows, L.base + Len(rows) * L.stride,
                 ReadSeq(buf, Seek(r, L.base + Len(rows) * L.stride), L.kinds))

RowStep(buf, r, L, rows, at, e) ==
    IF e.thrown
    THEN [thrown |-> TRUE, rows |-> <<>>, pos |-> e.pos]
    ELSE ReadRows(buf, Seek(r, e.pos), L, Append(rows, [off |-> at, vals |-> e.vals]))

ReadEntries(buf, r, L) == ReadRows(buf, r, L, <<>>)

PhOut(is64, t) ==
    [thrown |-> t.thrown, pos |-> t.pos,
     out |-> [k \in 1..Len(t.rows) |-> PhRecord(is64, t.rows[k].vals)]]

\* lines 734-748
ReadProgramHeaders(buf, r, h) ==
    PhOut(r.is64,
          ReadEntries(buf, r, [base |-> Num(h.phoff), stride |-> h.phentsize,
                               kinds |-> PhKinds(r.is64), unit |-> 1,
                               limit |-> h.phnum]))

ShOut(t) ==
    [thrown |-> t.thrown, pos |-> t.pos,
     out |-> [k \in 1..Len(t.rows) |-> ShRecord(t.rows[k].vals)]]

\* lines 750-768
ReadSectionHeaders(buf, r, h) ==
    ShOut(ReadEntries(buf, r, [base |-> Num(h.shoff), stride |-> h.shentsize,
                               kinds |-> ShKinds, unit |-> 1, limit |-> h.shnum]))

\* sh.name = readCString(data, strtabOff + sh.nameIdx) for every section
NamesFrom(buf, shs, strtabOff) ==
    [k \in 1..Len(shs) |->
        [shs[k] EXCEPT !.name = readCString(buf, strtabOff + Num(shs[k].nameIdx))]]

\* a faulty ResolveNames: the designated section's address for its file offset
ResolveNamesByAddr(buf, h, shs) ==
    IF h.shstrndx < Len(shs)
    THEN NamesFrom(buf, shs, Num(shs[h.shstrndx + 1].addr))
    ELSE shs

\* lines 770-776; shs is indexed from 1, section i is shs[i + 1]
ResolveNames(buf, h, shs) ==
    IF h.shstrndx < Len(shs)
    THEN NamesFrom(buf, shs, Num(shs[h.shstrndx + 1].offset))
    ELSE shs

\* sh.type === n
IsType(sh, n) == Num(sh.type) = n

\* sh.link < sectionHeaders.length ? sectionHeaders[sh.link] : null
HasLinked(shs, sh) == Num(sh.link) < Len(shs)
Linked(shs, sh) == shs[Num(sh.link) + 1]

\* the loop of an entry table of section sh: count = Number(sh.size) / entSize
\* is not rounded, so the loop runs while i * entSize < Number(sh.size)
TableLoop(sh, entSize, kinds) ==
    [base |-> Num(sh.offset), stride |-> entSize, kinds |-> kinds,
     unit |-> entSize, limit |-> Num(sh.size)]

\* line 809: if (strSec) sym.name = readCString(data, strOff + sym.nameIdx)
NamedSym(buf, shs, sh, s0) ==
    IF HasLinked(shs, sh)
    THEN [s0 EXCEPT !.name =
              readCString(buf, Num(Linked(shs, sh).offset) + Num(s0.nameIdx))]
    ELSE s0

\* line 812: sh.name || (sh.type === 2 ? '.symtab' : '.dynsym')
SymTableName(sh) ==
    IF sh.name # <<>> THEN sh.name
    ELSE IF IsType(sh, 2) THEN DotSymtab ELSE DotDynsym

SymTableOut(buf, is64, shs, sh, entSize, t) ==
    [thrown |-> t.thrown, pos |-> t.pos,
     out |-> [section |-> SymTableName(sh),
              sectionOffset |-> Num(sh.offset),
              symbols |-> [k \in 1..Len(t.rows) |->
                              NamedSym(buf, shs, sh,
                                       SymRecord(is64, t.rows[k].vals,
                                                 t.rows[k].off, entSize))]]]

SymTableWith(buf, r, shs, sh, entSize) ==
    SymTableOut(buf, r.is64, shs, sh, entSize,
                ReadEntries(buf, r, TableLoop(sh, entSize, SymKinds(r.is64))))

\* lines 781-812: the symbol table of one SYMTAB/DYNSYM section
SymTable(buf, r, shs, sh) ==
    SymTableWith(buf, r, shs, sh, EntSize(sh, SymEntDefault(r.is64)))

\* lines 778-813: one table per section of type 2 or 11, in section order
RECURSIVE SymbolsFrom(_, _, _, _, _)
RECURSIVE SymbolsStep(_, _, _, _, _, _)
SymbolsFrom(buf, r, shs, k, out) ==
    IF k > Len(shs) THEN [thrown |-> FALSE, out |-> out, pos |-> r.pos]
    ELSE IF IsType(shs[k], 2) \/ IsType(shs[k], 11)
    THEN SymbolsStep(buf, r, shs, k, out, SymTable(buf, r, shs, shs[k]))
    ELSE SymbolsFrom(buf, r, shs, k + 1, out)

SymbolsStep(buf, r, shs, k, out, t) ==
    IF t.thrown THEN [thrown |-> TRUE, out |-> <<>>, pos |-> t.pos]
    ELSE SymbolsFrom(buf, Seek(r, t.pos), shs, k + 1, Append(out, t.out))

ReadSymbols(buf, r, shs) == SymbolsFrom(buf, r, shs, 1, <<>>)

\* one entry of the dynamic section, read at offset at
DynEnt(e, at, entSize) ==
    [tag |-> e.vals[1], val |-> e.vals[2], fileOffset |-> at, entSize |-> entSize]

\* lines 823-830: the entries of one DYNAMIC section, up to and including the
\* first whose tag is 0.  D = [secOff, entSize, size]; i counts the entries of
\* this section; out is dynamicEntries.
RECURSIVE ReadDynEntries(_, _, _, _, _)
RECURSIVE DynStep(_, _, _, _, _, _)
ReadDynEntries(buf, r, D, i, out) ==
    IF ~(i * D.entSize < D.size)
    THEN [thrown |-> FALSE, out |-> out, pos |-> r.pos]
    ELSE DynStep(buf, r, D, i, out,
                 ReadSeq(buf, Seek(r, D.secOff + i * D.entSize), DynKinds))

DynStep(buf, r, D, i, out, e) ==
    IF e.thrown THEN [thrown |-> TRUE, out |-> <<>>, pos |-> e.pos]
    ELSE IF SignedIsZero(e.vals[1])
    THEN [thrown |-> FALSE, pos |-> e.pos,
          out |-> Append(out, DynEnt(e, D.secOff + i * D.entSize, D.entSize))]
    ELSE ReadDynEntries(buf, Seek(r, e.pos), D, i + 1,
                        Append(out, DynEnt(e, D.secOff + i * D.entSize, D.entSize)))

\* lines 815-831: every DYNAMIC section appends to the one list; off is
\* dynamicSectionOffset
RECURSIVE DynamicFrom(_, _, _, _, _, _)
RECURSIVE DynamicStep(_, _, _, _, _, _)
DynamicFrom(buf, r, shs, k, off, out) ==
    IF k > Len(shs) THEN [thrown |-> FALSE, out |-> out, off |-> off, pos |-> r.pos]
    ELSE IF IsType(shs[k], 6)
    THEN DynamicStep(buf, r, shs, k, off,
                     ReadDynEntries(buf, r,
                                    [secOff |-> Num(shs[k].offset),
                                     entSize |-> EntSize(shs[k], DynEntDefault(r.is64)),
                                     size |-> Num(shs[k].size)],
                                    0, out))
    ELSE DynamicFrom(buf, r, shs, k + 1, off, out)

DynamicStep(buf, r, shs, k, off, t) ==
    IF t.thrown THEN [thrown |-> TRUE, out |-> <<>>, off |-> off, pos |-> t.pos]
    ELSE DynamicFrom(buf, Seek(r, t.pos), shs, k + 1, Num(shs[k].offset), t.out)

ReadDynamic(buf, r, shs) == DynamicFrom(buf, r, shs, 1, 0, <<>>)

\* symbols.find(s => s.section === name): the position of the first table so
\* named, 0 when there is none
RECURSIVE FindTable(_, _, _)
FindTable(syms, name, k) ==
    IF k > Len(syms) THEN 0
    ELSE IF syms[k].section = name THEN k ELSE FindTable(syms, name, k + 1)

Found(syms, k) == IF k = 0 THEN Nothing ELSE Some(syms[k].symbols)

\* lines 840-845: symSymbols as an optional value
SymSymbols(shs, syms, sh) ==
    IF HasLinked(shs, sh)
    THEN Found(syms, FindTable(syms, Linked(shs, sh).name, 1))
    ELSE Nothing

\* lines 855-858
SymbolName(symSymbols, symIdx) ==
    IF symSymbols # Nothing /\ symIdx > 0 /\ symIdx < Len(symSymbols[1])
    THEN Some(symSymbols[1][symIdx + 1].name)
    ELSE Nothing

\* a faulty RelEnt: the last value read given as addend for both types
RelEntAddendAlways(is64, isRela, symSymbols, entSize, row) ==
    [offset |-> row.vals[1], info |-> row.vals[2],
     addend |-> IF isRela THEN Some(row.vals[3]) ELSE Some(ToSigned(row.vals[2])),
     symIdx |-> SymIdx(is64, row.vals[2]),
     symbolName |-> SymbolName(symSymbols, SymIdx(is64, row.vals[2])),
     fileOffset |-> row.off, entSize |-> entSize]

\* line 859: one relocation entry.  symIdx is the local of line 854, kept in
\* the entry for inspection.
RelEnt(is64, isRela, symSymbols, entSize, row) ==
    [offset |-> row.vals[1], info |-> row.vals[2],
     addend |-> IF isRela THEN Some(row.vals[3]) ELSE Nothing,
     symIdx |-> SymIdx(is64, row.vals[2]),
     symbolName |-> SymbolName(symSymbols, SymIdx(is64, row.vals[2])),
     fileOffset |-> row.off, entSize |-> entSize]

RelTableOut(is64, sh, isRela, entSize, symSymbols, t) ==
    [thrown |-> t.thrown, pos |-> t.pos,
     out |-> [section |-> sh.name, sectionOffset |-> Num(sh.offset),
              entries |-> [k \in 1..Len(t.rows) |->
                              RelEnt(is64, isRela, symSymbols, entSize, t.rows[k])]]]

RelTableWith(buf, r, shs, syms, sh, isRela, entSize) ==
    RelTableOut(r.is64, sh, isRela, entSize, SymSymbols(shs, syms, sh),
                ReadEntries(buf, r, TableLoop(sh, entSize, RelKinds(isRela))))

\* lines 836-861: the relocation table of one RELA (4) / REL (9) section
RelTable(buf, r, shs, syms, sh) ==
    RelTableWith(buf, r, shs, syms, sh, IsType(sh, 4),
                 EntSize(sh, RelEntDefault(r.is64, IsType(sh, 4))))

\* lines 833-862
RECURSIVE RelocationsFrom(_, _, _, _, _, _)
RECURSIVE RelocationsStep(_, _, _, _, _, _, _)
RelocationsFrom(buf, r, shs, syms, k, out) ==
    IF k > Len(shs) THEN [thrown |-> FALSE, out |-> out, pos |-> r.pos]
    ELSE IF IsType(shs[k], 4) \/ IsType(shs[k], 9)
    THEN RelocationsStep(buf, r, shs, syms, k, out,
                         RelTable(buf, r, shs, syms, shs[k]))
    ELSE RelocationsFrom(buf, r, shs, syms, k + 1, out)

RelocationsStep(buf, r, shs, syms, k, out, t) ==
    IF t.thrown THEN [thrown |-> TRUE, out |-> <<>>, pos |-> t.pos]
    ELSE RelocationsFrom(buf, Seek(r, t.pos), shs, syms, k + 1, Append(out, t.out))

ReadRelocations(buf, r, shs, syms) == RelocationsFrom(buf, r, shs, syms, 1, <<>>)

\* strs.push({ value: s, fileOffset: pos, length: s.length + 1 })
StrEntry(s, pos) == [value |-> s, fileOffset |-> pos, length |-> Len(s) + 1]

\* lines 872-876, the body of the loop at position p, where s is
\* readCString(data, pos); w = [pos, strs] are the loop's variables and n
\* counts the times the body has run
StrPush(w, p, s) ==
    [pos |-> p + Len(s) + 1,
     strs |-> IF Len(s) > 0 THEN Append(w.strs, StrEntry(s, p)) ELSE w.strs,
     n |-> w.n + 1]

\* the body runs at p if the walk is at p
StrAt(buf, w, p) == IF w.pos = p THEN StrPush(w, p, readCString(buf, p)) ELSE w

\* lines 871-877: while (pos < end) { ... pos += s.length + 1 }.  pos only
\* grows, so the loop is gone through position by position in increasing
\* order, here over the positions lo .. hi - 1 split in halves: w is the
\* state of the loop on reaching lo, the result its state on reaching hi.
RECURSIVE StrRange(_, _, _, _)
\* the second half, entered with the state w the first half leaves; no
\* position below hi is left to go through once pos has reached hi
StrRest(buf, w, lo, hi) == IF w.pos >= hi THEN w ELSE StrRange(buf, w, lo, hi)

StrRange(buf, w, lo, hi) ==
    IF hi <= lo THEN w
    ELSE IF hi = lo + 1 THEN StrAt(buf, w, lo)
    ELSE StrRest(buf, StrRange(buf, w, lo, (lo + hi) \div 2), (lo + hi) \div 2, hi)

\* the strings of the walk from off to end.  At a position at or past the end
\* of the buffer readCString returns '' and the body only adds one to pos, so
\* the walk is followed up to the end of the buffer.
StrWalk(buf, off, end) ==
    StrRange(buf, [pos |-> off, strs |-> <<>>, n |-> 0], off, Min(end, Len(buf))).strs

\* how often the body of the loop runs: at or past the end of the buffer
\* readCString gives '' and pos grows by one, until pos reaches end
StrIterations(buf, off, end) ==
    LET w == StrRange(buf, [pos |-> off, strs |-> <<>>, n |-> 0], off,
                      Min(end, Len(buf)))
    IN  w.n + (IF w.pos < end THEN end - w.pos ELSE 0)

\* lines 865-878: the string table of one section of type 3
StrTable(buf, sh) ==
    [section |-> sh.name, sectionOffset |-> Num(sh.offset),
     strings |-> StrWalk(buf, Num(sh.offset), Num(sh.offset) + Num(sh.size))]

\* lines 864-879: one table per section of type 3
RECURSIVE StringTablesFrom(_, _, _, _)
StringTablesFrom(buf, shs, k, out) ==
    IF k > Len(shs) THEN out
    ELSE StringTablesFrom(buf, shs, k + 1,
                          IF IsType(shs[k], 3) THEN Append(out, StrTable(buf, shs[k]))
                          ELSE out)

ReadStringTables(buf, shs) == StringTablesFrom(buf, shs, 1, <<>>)

-----------------------------------------------------------------------------
(* buildTree (extension.ts): the items made of a returned model.  Only what  *)
(* places an item in the file is kept: kv(key, value, offset, size) is the   *)
(* record [key, kind, value, offset, size], value being the decoded value    *)
(* the item shows and kind the Reader method that gave it.  Number(x) at or  *)
(* above NumCap is NumCap.                                                   *)

KV(key, kind, value, offset, size) ==
    [key |-> key, kind |-> kind, value |-> value, offset |-> offset, size |-> size]

\* lines 144-160: the children of 'ELF Header'
HeaderItems(h, is64) ==
    <<KV("Class", "u8", h.class, 4, 1),
      KV("Encoding", "u8", h.data, 5, 1),
      KV("OS/ABI", "u8", h.osabi, 7, 1),
      KV("Type", "u16", h.type, 16, 2),
      KV("Machine", "u16", h.machine, 18, 2),
      KV("Entry Point", "addr", h.entry, IF is64 THEN 24 ELSE 24, IF is64 THEN 8 ELSE 4),
      KV("PH Offset", "off", h.phoff, IF is64 THEN 32 ELSE 28, IF is64 THEN 8 ELSE 4),
      KV("SH Offset", "off", h.shoff, IF is64 THEN 40 ELSE 32, IF is64 THEN 8 ELSE 4),
      KV("Flags", "u32", h.flags, IF is64 THEN 48 ELSE 36, 4),
      KV("Header Size", "u16", h.ehsize, IF is64 THEN 52 ELSE 40, 2),
      KV("PH Entry Size", "u16", h.phentsize, IF is64 THEN 54 ELSE 42, 2),
      KV("PH Count", "u16", h.phnum, IF is64 THEN 56 ELSE 44, 2),
      KV("SH Entry Size", "u16", h.shentsize, IF is64 THEN 58 ELSE 46, 2),
      KV("SH Count", "u16", h.shnum, IF is64 THEN 60 ELSE 48, 2),
      KV("SH String Index", "u16", h.shstrndx, IF is64 THEN 62 ELSE 50, 2)>>

\* a faulty SegmentData: the size in memory for the size in the file
SegmentDataOfMemsz(ph) ==
    IF Num(ph.memsz) > 0 /\ Num(ph.offset) >= 0
    THEN Some([offset |-> Num(ph.offset), size |-> Num(ph.memsz)])
    ELSE Nothing

\* lines 219-234: the 'Segment Data' child, if (segSize > 0 && segOff >= 0)
SegmentData(ph) ==
    IF Num(ph.filesz) > 0 /\ Num(ph.offset) >= 0
    THEN Some([offset |-> Num(ph.offset), size |-> Num(ph.filesz)])
    ELSE Nothing

\* lines 176-245: the item of program header ph, whose entry is at entryOff
PhItem(ph, entryOff, is64) ==
    [offset |-> entryOff,
     fields |->
        IF is64
        THEN <<KV("Type", "u32", ph.type, entryOff + 0, 4),
               KV("Flags", "u32", ph.flags, entryOff + 4, 4),
               KV("File Offset", "off", ph.offset, entryOff + 8, 8),
               KV("Virtual Address", "addr", ph.vaddr, entryOff + 16, 8),
               KV("Physical Address", "addr", ph.paddr, entryOff + 24, 8),
               KV("File Size", "xword", ph.filesz, entryOff + 32, 8),
               KV("Memory Size", "xword", ph.memsz, entryOff + 40, 8),
               KV("Alignment", "xword", ph.align, entryOff + 48, 8)>>
        ELSE <<KV("Type", "u32", ph.type, entryOff + 0, 4),
               KV("Flags", "u32", ph.flags, entryOff + 24, 4),
               KV("File Offset", "off", ph.offset, entryOff + 4, 4),
               KV("Virtual Address", "addr", ph.vaddr, entryOff + 8, 4),
               KV("Physical Address", "addr", ph.paddr, entryOff + 12, 4),
               KV("File Size", "xword", ph.filesz, entryOff + 16, 4),
               KV("Memory Size", "xword", ph.memsz, entryOff + 20, 4),
               KV("Alignment", "xword", ph.align, entryOff + 28, 4)>>,
     data |-> SegmentData(ph)]

\* a faulty SectionData: a span whatever the type
SectionDataAnyType(sh) ==
    IF Num(sh.size) > 0
    THEN Some([offset |-> Num(sh.offset), size |-> Num(sh.size)])
    ELSE Nothing

\* lines 302-331: the 'Section Data' child, if (sh.type !== 8 && dataSize > 0)
SectionData(sh) ==
    IF ~IsType(sh, 8) /\ Num(sh.size) > 0
    THEN Some([offset |-> Num(sh.offset), size |-> Num(sh.size)])
    ELSE Nothing

\* lines 262-342: the item of section header sh, whose entry is at entryOff
ShItem(sh, entryOff, is64) ==
    [offset |-> entryOff,
     fields |->
        IF is64
        THEN <<KV("Name Index", "u32", sh.nameIdx, entryOff + 0, 4),
               KV("Type", "u32", sh.type, entryOff + 4, 4),
               KV("Flags", "xword", sh.flags, entryOff + 8, 8),
               KV("Address", "addr", sh.addr, entryOff + 16, 8),
               KV("File Offset", "off", sh.offset, entryOff + 24, 8),
               KV("Size", "xword", sh.size, entryOff + 32, 8),
               KV("Link", "u32", sh.link, entryOff + 40, 4),
               KV("Info", "u32", sh.info, entryOff + 44, 4),
               KV("Alignment", "xword", sh.addralign, entryOff + 48, 8),
               KV("Entry Size", "xword", sh.entsize, entryOff + 56, 8)>>
        ELSE <<KV("Name Index", "u32", sh.nameIdx, entryOff + 0, 4),
               KV("Type", "u32", sh.type, entryOff + 4, 4),
               KV("Flags", "xword", sh.flags, entryOff + 8, 4),
               KV("Address", "addr", sh.addr, entryOff + 12, 4),
               KV("File Offset", "off", sh.offset, entryOff + 16, 4),
               KV("Size", "xword", sh.size, entryOff + 20, 4),
               KV("Link", "u32", sh.link, entryOff + 24, 4),
               KV("Info", "u32", sh.info, entryOff + 28, 4),
               KV("Alignment", "xword", sh.addralign, entryOff + 32, 4),
               KV("Entry Size", "xword", sh.entsize, entryOff + 36, 4)>>,
     data |-> SectionData(sh)]

\* line 361: .filter(s => s.name || s.value !== 0n)
Shown(s) == s.name # <<>> \/ ~IsZero(s.value)

\* lines 58-61: getRawHex(value, size), '0x' + the digits of the value in
\* base 16, padded with zeros to 2 * size digits; the digits are given by
\* their values, most significant first
getRawHex(num, size) ==
    LET RECURSIVE Hex(_)
        Hex(v) == IF v < 16 THEN <<v>> ELSE Hex(v \div 16) \o <<v % 16>>
    IN [k \in 1 .. (2 * size - Len(Hex(num))) |-> 0] \o Hex(num)

\* a faulty SymParts: the type taken from the three low-order bits
SymPartsLow3(s, infoOff) ==
    <<KV("Binding", "hex", getRawHex(s.info \div 16, 1), infoOff, 1),
      KV("Type", "hex", getRawHex(s.info % 8, 1), infoOff, 1)>>

\* lines 363-366, 397-398: the 'Binding' and 'Type' children of a symbol, which
\* show getRawHex(s.info >> 4, 1) and getRawHex(s.info & 0xf, 1) on the span
\* of the info byte
SymParts(s, infoOff) ==
    <<KV("Binding", "hex", getRawHex(s.info \div 16, 1), infoOff, 1),
      KV("Type", "hex", getRawHex(s.info % 16, 1), infoOff, 1)>>

\* lines 362-417: the item of symbol s; fields are the children that show a
\* decoded field, parts the two that show a part of the info byte
SymItem(s, is64) ==
    [offset |-> s.fileOffset, size |-> s.entSize,
     parts |-> SymParts(s, s.fileOffset + (IF is64 THEN 4 ELSE 12)),
     fields |->
        IF is64
        THEN <<KV("Name Index", "u32", s.nameIdx, s.fileOffset + 0, 4),
               KV("Info", "u8", s.info, s.fileOffset + 4, 1),
               KV("Other", "u8", s.other, s.fileOffset + 5, 1),
               KV("Section Index", "u16", s.shndx, s.fileOffset + 6, 2),
               KV("Value", "addr", s.value, s.fileOffset + 8, 8),
               KV("Size", "xword", s.size, s.fileOffset + 16, 8)>>
        ELSE <<KV("Name Index", "u32", s.nameIdx, s.fileOffset + 0, 4),
               KV("Info", "u8", s.info, s.fileOffset + 12, 1),
               KV("Other", "u8", s.other, s.fileOffset + 13, 1),
               KV("Section Index", "u16", s.shndx, s.fileOffset + 14, 2),
               KV("Value", "addr", s.value, s.fileOffset + 4, 4),
               KV("Size", "xword", s.size, s.fileOffset + 8, 4)>>]

\* lines 356-430: one group per symbol table that has a symbol to show
SymGroups(syms, is64) ==
    LET Group(st) ==
            [section |-> st.section,
             children |-> [k \in 1 .. Len(SelectSeq(st.symbols, Shown)) |->
                              SymItem(SelectSeq(st.symbols, Shown)[k], is64)]]
        NotEmpty(g) == Len(g.children) > 0
    IN SelectSeq([t \in 1 .. Len(syms) |-> Group(syms[t])], NotEmpty)

\* a faulty DynItem: the value placed 8 bytes after the tag in both widths
DynItemValAt8(d, is64) ==
    [offset |-> d.fileOffset, size |-> d.entSize,
     fields |->
        <<KV("Tag", "sxword", d.tag, d.fileOffset + 0, IF is64 THEN 8 ELSE 4),
          KV("Value", "xword", d.val, d.fileOffset + 8, IF is64 THEN 8 ELSE 4)>>]

\* lines 436-467: the item of dynamic entry d
DynItem(d, is64) ==
    [offset |-> d.fileOffset, size |-> d.entSize,
     fields |->
        IF is64
        THEN <<KV("Tag", "sxword", d.tag, d.fileOffset + 0, 8),
               KV("Value", "xword", d.val, d.fileOffset + 8, 8)>>
        ELSE <<KV("Tag", "sxword", d.tag, d.fileOffset + 0, 4),
               KV("Value", "xword", d.val, d.fileOffset + 4, 4)>>]

\* lines 482-484: relSecHdr = sectionHeaders.find(s => s.name === rel.section);
\* isRela = relSecHdr?.type === 4
IsRelaByName(shs, name) ==
    \E k \in 1 .. Len(shs) :
        /\ shs[k].name = name
        /\ IsType(shs[k], 4)
        /\ \A j \in 1 .. k - 1 : shs[j].name # name

\* lines 486-535: the item of relocation entry r (the tables of the files
\* generated have fewer than the 500 entries shown); the 'Addend' child is made
\* if (r.addend !== undefined && addendOff !== undefined)
RelItem(r, isRela, is64) ==
    [offset |-> r.fileOffset, size |-> r.entSize,
     fields |->
        <<KV("Offset", "addr", r.offset, r.fileOffset + 0, IF is64 THEN 8 ELSE 4),
          KV("Info", "xword", r.info, r.fileOffset + (IF is64 THEN 8 ELSE 4),
             IF is64 THEN 8 ELSE 4)>>
        \o (IF r.addend # Nothing /\ isRela
            THEN <<KV("Addend", "sxword", r.addend[1],
                      r.fileOffset + (IF is64 THEN 16 ELSE 8), IF is64 THEN 8 ELSE 4)>>
            ELSE <<>>)]

\* lines 481-549: one group per relocation table that has entries
RelGroups(rels, shs, is64) ==
    LET Group(rel) ==
            [section |-> rel.section,
             children |-> [k \in 1 .. Len(rel.entries) |->
                              RelItem(rel.entries[k], IsRelaByName(shs, rel.section), is64)]]
        NotEmpty(g) == Len(g.children) > 0
    IN SelectSeq([t \in 1 .. Len(rels) |-> Group(rels[t])], NotEmpty)

\* lines 137-549: buildTree(elf), with is64 = (h.class === 2)
BuildTreeOf(h, phs, shs, syms, dyns, rels) ==
    [header |-> HeaderItems(h, h.class = 2),
     programHeaders |->
        [i \in 1 .. Len(phs) |->
            PhItem(phs[i], Num(h.phoff) + (i - 1) * h.phentsize, h.class = 2)],
     sectionHeaders |->
        [i \in 1 .. Len(shs) |->
            ShItem(shs[i], Num(h.shoff) + (i - 1) * h.shentsize, h.class = 2)],
     symbols |-> SymGroups(syms, h.class = 2),
     dynamic |-> [i \in 1 .. Len(dyns) |-> DynItem(dyns[i], h.class = 2)],
     relocations |-> RelGroups(rels, shs, h.class = 2)]

-----------------------------------------------------------------------------
(* The input buffers: for each of the four variants a small well-formed file  *)
(*   header | program headers | section headers | strtab | dynamic | symtab  *)
(*   | dynsym | rela | rel                                                    *)
(* written field by field at the offsets of the ELF layout, then the same     *)
(* file with one byte overwritten, or cut short.                              *)

RECURSIVE Digits(_, _)
Digits(n, w) == IF w = 0 THEN <<>> ELSE <<n % 256>> \o Digits(n \div 256, w - 1)

\* the bytes of a value (given by its digits) in the file's byte order
Put(d, isLE) == IF isLE THEN d ELSE Reverse(d)
Enc(n, w, isLE) == Put(Digits(n, w), isLE)

AW(is64) == IF is64 THEN 8 ELSE 4
GenEhSize(is64) == IF is64 THEN 64 ELSE 52
GenPhEnt(is64) == IF is64 THEN 56 ELSE 32
GenShEnt(is64) == IF is64 THEN 64 ELSE 40

\* section types by index: NULL, STRTAB, SYMTAB, DYNSYM, RELA, REL, DYNAMIC, NOBITS
GenSecTypes == <<0, 3, 2, 11, 4, 9, 6, 8>>
GenNSec == Len(GenSecTypes)

\* "\0S\0T\0D\0A\0R\0Y\0B\0" "\0" "f\0" "gh\0" "\xC3\xA9\0" "k\0"
\* "\xC3\xA9\xC3\xA9\0"
GenStrTab ==
    <<0, 83, 0, 84, 0, 68, 0, 65, 0, 82, 0, 89, 0, 66, 0,
      0, 102, 0, 103, 104, 0, 195, 169, 0, 107, 0,
      195, 169, 195, 169, 0>>
GenSecName(s) == IF s = 0 THEN 0 ELSE 2 * s - 1
GenSymName(dyn, k) ==
    IF k = 0 THEN 0
    ELSE IF dyn THEN (IF k % 2 = 1 THEN 21 ELSE 24)
    ELSE (IF k % 2 = 1 THEN 16 ELSE 18)

GenPhOff(is64) == GenEhSize(is64)
GenShOff(is64) == GenPhOff(is64) + NPh * GenPhEnt(is64)
GenStrOff(is64) == GenShOff(is64) + GenNSec * GenShEnt(is64)
GenDynOff(is64) == GenStrOff(is64) + Len(GenStrTab)
GenSymOff(is64) == GenDynOff(is64) + NDyn * DynEntDefault(is64)
GenDynsymOff(is64) == GenSymOff(is64) + NSym * SymEntDefault(is64)
GenRelaOff(is64) == GenDynsymOff(is64) + NSym * SymEntDefault(is64)
GenRelOff(is64) == GenRelaOff(is64) + NRel * RelEntDefault(is64, TRUE)
GenEnd(is64) == GenRelOff(is64) + NRel * RelEntDefault(is64, FALSE)

GenHeader(is64, isLE) ==
    <<127, 69, 76, 70, IF is64 THEN 2 ELSE 1, IF isLE THEN 1 ELSE 2, 1, 3,
      0, 0, 0, 0, 0, 0, 0, 0>>
    \o Enc(2, 2, isLE) \o Enc(62, 2, isLE) \o Enc(1, 4, isLE)
    \o Enc(66051, AW(is64), isLE)
    \o Enc(GenPhOff(is64), AW(is64), isLE) \o Enc(GenShOff(is64), AW(is64), isLE)
    \o Enc(5, 4, isLE) \o Enc(GenEhSize(is64), 2, isLE)
    \o Enc(GenPhEnt(is64), 2, isLE) \o Enc(NPh, 2, isLE)
    \o Enc(GenShEnt(is64), 2, isLE) \o Enc(GenNSec, 2, isLE) \o Enc(1, 2, isLE)

\* program header i: PT_LOAD, p_filesz 0x100 * (i + 1)
GenPh(is64, isLE, i) ==
    LET a == AW(is64)
        type == Enc(1, 4, isLE)
        flags == Enc(4 + i, 4, isLE)
        offset == Enc(GenStrOff(is64) + i, a, isLE)
        vaddr == Enc(4096 + i, a, isLE)
        paddr == Enc(8192 + i, a, isLE)
        filesz == Enc(256 * (i + 1), a, isLE)
        memsz == Enc(256 * (i + 1) + 16, a, isLE)
        align == Enc(16, a, isLE)
    IN IF is64
       THEN type \o flags \o offset \o vaddr \o paddr \o filesz \o memsz \o align
       ELSE type \o offset \o vaddr \o paddr \o filesz \o memsz \o flags \o align

GenSecOff(is64, s) ==
    CASE s = 1 -> GenStrOff(is64)
      [] s = 2 -> GenSymOff(is64)
      [] s = 3 -> GenDynsymOff(is64)
      [] s = 4 -> GenRelaOff(is64)
      [] s = 5 -> GenRelOff(is64)
      [] s = 6 -> GenDynOff(is64)
      [] s = 7 -> GenEnd(is64)
      [] OTHER -> 0

GenSecEnt(is64, s) ==
    CASE s = 2 -> SymEntDefault(is64)
      [] s = 3 -> SymEntDefault(is64)
      [] s = 4 -> RelEntDefault(is64, TRUE)
      [] s = 5 -> RelEntDefault(is64, FALSE)
      [] s = 6 -> DynEntDefault(is64)
      [] OTHER -> 0

GenSecSize(is64, s) ==
    CASE s = 1 -> Len(GenStrTab)
      [] s = 2 -> NSym * SymEntDefault(is64)
      [] s = 3 -> NSym * SymEntDefault(is64)
      [] s = 4 -> NRel * RelEntDefault(is64, TRUE)
      [] s = 5 -> NRel * RelEntDefault(is64, FALSE)
      [] s = 6 -> NDyn * DynEntDefault(is64)
      [] s = 7 -> 4096
      [] OTHER -> 0

\* rela links to dynsym (3), rel to symtab (2), the symbol tables and the
\* dynamic section to the string table (1)
GenSecLink(s) ==
    CASE s = 2 -> 1 [] s = 3 -> 1 [] s = 4 -> 3 [] s = 5 -> 2 [] s = 6 -> 1
      [] OTHER -> 0

GenSh(is64, isLE, s) ==
    LET a == AW(is64)
    IN IF s = 0 THEN [k \in 1..GenShEnt(is64) |-> 0]
       ELSE Enc(GenSecName(s), 4, isLE) \o Enc(GenSecTypes[s + 1], 4, isLE)
            \o Enc(2 + s, a, isLE) \o Enc(64 + s, a, isLE)
            \o Enc(GenSecOff(is64, s), a, isLE) \o Enc(GenSecSize(is64, s), a, isLE)
            \o Enc(GenSecLink(s), 4, isLE) \o Enc(s, 4, isLE)
            \o Enc(8, a, isLE) \o Enc(GenSecEnt(is64, s), a, isLE)

\* symbol k of the symtab (dyn = FALSE) or the dynsym; symbol 0 is the empty slot
GenSym(is64, isLE, dyn, k) ==
    LET a == AW(is64)
        name == Enc(GenSymName(dyn, k), 4, isLE)
        value == Enc(IF k = 0 THEN 0 ELSE (IF dyn THEN 32 * k + 1 ELSE 16 * k), a, isLE)
        size == Enc(k, a, isLE)
        info == <<IF k = 0 THEN 0 ELSE IF k % 2 = 1 THEN 18 ELSE 33>>
        other == <<0>>
        shndx == Enc(k, 2, isLE)
    IN IF is64 THEN name \o info \o other \o shndx \o value \o size
       ELSE name \o value \o size \o info \o other \o shndx

\* relocation j: type 7, symbol (j + 1) % NSym, addend -1 for j = 0
GenRelInfo(is64, j) ==
    IF is64 THEN Digits(7, 4) \o Digits((j + 1) % NSym, 4)
    ELSE <<7>> \o Digits((j + 1) % NSym, 3)

GenRel(is64, isLE, isRela, j) ==
    LET a == AW(is64)
    IN Enc(32 + j, a, isLE) \o Put(GenRelInfo(is64, j), isLE)
       \o (IF ~isRela THEN <<>>
           ELSE IF j = 0 THEN [k \in 1..a |-> 255] ELSE Enc(j, a, isLE))

\* dynamic entry j: tags 1, 0 (the terminator), 3, 4, ...
GenDyn(is64, isLE, j) ==
    Enc(IF j = 1 THEN 0 ELSE j + 1, AW(is64), isLE) \o Enc(9 + j, AW(is64), isLE)

\* G(0) \o G(1) \o ... \o G(n - 1)
RECURSIVE GenCat(_, _, _)
GenCat(G(_), i, n) == IF i >= n THEN <<>> ELSE G(i) \o GenCat(G, i + 1, n)

GenFile(is64, isLE) ==
    LET Ph(i) == GenPh(is64, isLE, i)
        Sh(i) == GenSh(is64, isLE, i)
        Dy(i) == GenDyn(is64, isLE, i)
        Sy(i) == GenSym(is64, isLE, FALSE, i)
        Ds(i) == GenSym(is64, isLE, TRUE, i)
        Ra(i) == GenRel(is64, isLE, TRUE, i)
        Re(i) == GenRel(is64, isLE, FALSE, i)
    IN GenHeader(is64, isLE) \o GenCat(Ph, 0, NPh) \o GenCat(Sh, 0, GenNSec)
       \o GenStrTab \o GenCat(Dy, 0, NDyn) \o GenCat(Sy, 0, NSym)
       \o GenCat(Ds, 0, NSym) \o GenCat(Ra, 0, NRel) \o GenCat(Re, 0, NRel)

\* the position of the k-th least significant byte of a w-byte field at off
ByteOf(off, w, k, isLE) == IF isLE THEN off + k ELSE off + w - 1 - k

GenShAt(is64, s) == GenShOff(is64) + s * GenShEnt(is64)

\* the bytes overwritten: magic, class, data, the table geometry of the
\* header, six fields of every section header, and bytes of the tables
GenPokePos(is64, isLE) ==
    LET a == AW(is64)
        sym1 == GenSymOff(is64) + SymEntDefault(is64)
        dsym1 == GenDynsymOff(is64) + SymEntDefault(is64)
        dyn1 == GenDynOff(is64) + DynEntDefault(is64)
    IN {0, 4, 5}
       \cup { ByteOf(IF is64 THEN 32 ELSE 28, a, 1, isLE),      \* e_phoff
              ByteOf(IF is64 THEN 54 ELSE 42, 2, 0, isLE),      \* e_phentsize
              ByteOf(IF is64 THEN 56 ELSE 44, 2, 0, isLE),      \* e_phnum
              ByteOf(IF is64 THEN 58 ELSE 46, 2, 0, isLE),      \* e_shentsize
              ByteOf(IF is64 THEN 60 ELSE 48, 2, 0, isLE),      \* e_shnum
              ByteOf(IF is64 THEN 62 ELSE 50, 2, 0, isLE) }     \* e_shstrndx
       \cup UNION { { ByteOf(GenShAt(is64, s), 4, 0, isLE),                           \* sh_name
                      ByteOf(GenShAt(is64, s) + 4, 4, 0, isLE),                       \* sh_type
                      ByteOf(GenShAt(is64, s) + (IF is64 THEN 24 ELSE 16), a, 1, isLE), \* sh_offset
                      ByteOf(GenShAt(is64, s) + (IF is64 THEN 32 ELSE 20), a, 0, isLE), \* sh_size
                      ByteOf(GenShAt(is64, s) + (IF is64 THEN 40 ELSE 24), 4, 0, isLE), \* sh_link
                      ByteOf(GenShAt(is64, s) + (IF is64 THEN 56 ELSE 36), a, 0, isLE) } \* sh_entsize
                    : s \in 0..(GenNSec - 1) }
       \cup { sym1 + (IF is64 THEN 4 ELSE 12),                   \* st_info
              ByteOf(sym1, 4, 0, isLE), ByteOf(dsym1, 4, 0, isLE), \* st_name
              ByteOf(GenRelaOff(is64) + a, a, 0, isLE),          \* r_info: type
              ByteOf(GenRelaOff(is64) + a, a, IF is64 THEN 4 ELSE 1, isLE),  \* symbol
              ByteOf(GenRelOff(is64) + a, a, 0, isLE),
              ByteOf(GenRelOff(is64) + a, a, IF is64 THEN 4 ELSE 1, isLE),
              ByteOf(GenDynOff(is64), a, 0, isLE),               \* d_tag
              ByteOf(GenDynOff(is64), a, a - 1, isLE),
              ByteOf(dyn1, a, 0, isLE),
              GenStrOff(is64) + 2, GenStrOff(is64) + 15, GenStrOff(is64) + 16,
              GenStrOff(is64) + Len(GenStrTab) - 1 }

GenPokeVals == {0, 2, 3, 9, 255}

GenCutLens(is64) ==
    {0, 3, 51, 52, 63, GenShOff(is64) - 1}
    \cup { GenEnd(is64) - c : c \in 1..MaxCut }

\* pairs of overwritten bytes <<p1, v1, p2, v2>>: the REL section linked to
\* the string table (section 1) and the string table given the name of the
\* SYMTAB section
GenPokePairs(is64, isLE) ==
    { <<ByteOf(GenShAt(is64, 5) + (IF is64 THEN 40 ELSE 24), 4, 0, isLE), 1,
        ByteOf(GenShAt(is64, 1), 4, 0, isLE), GenSecName(2)>> }

\* every value of a byte
GenInfoBytes == 0 .. 255

\* single overwritten bytes <<p, v>> beside the grid above: the size of the
\* string table set to 19, which ends the section between "g" and "h", and
\* its second byte set to 255, a size far beyond the file; in
\* the 32-bit little-endian and the 64-bit big-endian file, st_info of the
\* second symbol set to every value of a byte
GenPokeMore(is64, isLE) ==
    { <<ByteOf(GenShAt(is64, 1) + (IF is64 THEN 32 ELSE 20), AW(is64), 0, isLE), 19>>,
      <<ByteOf(GenShAt(is64, 1) + (IF is64 THEN 32 ELSE 20), AW(is64), 1, isLE), 255>> }
    \cup (IF is64 = isLE THEN {}
          ELSE { <<GenSymOff(is64) + SymEntDefault(is64) + (IF is64 THEN 4 ELSE 12), v>>
                    : v \in GenInfoBytes })

GenVariantsOf(f, is64, isLE) ==
    {f}
    \cup { [f EXCEPT ![q[1] + 1] = q[2]] : q \in GenPokeMore(is64, isLE) }
    \cup { [f EXCEPT ![p + 1] = v] : p \in GenPokePos(is64, isLE), v \in GenPokeVals }
    \cup { [f EXCEPT ![q[1] + 1] = q[2], ![q[3] + 1] = q[4]] : q \in GenPokePairs(is64, isLE) }
    \cup { SubSeq(f, 1, n) : n \in GenCutLens(is64) }

GenVariants(is64, isLE) == GenVariantsOf(GenFile(is64, isLE), is64, isLE)

GenInputs == UNION { GenVariants(is64, isLE) : is64 \in BOOLEAN, isLE \in BOOLEAN }

-----------------------------------------------------------------------------
(* parseElf as a state machine *)

NoCall == [op |-> "none", at |-> 0, w |-> 0, thrown |-> FALSE, val |-> Nothing]
NoReader == [is64 |-> FALSE, isLE |-> FALSE, pos |-> 0]
NoTree == <<>>
NoDoc == <<>>
NoEditor == <<>>
NoClicks == <<>>

InitLocals ==
    /\ tree = NoTree
    /\ doc = NoDoc
    /\ ed = NoEditor
    /\ ui = NoClicks
    /\ header = Nothing
    /\ programHeaders = <<>>
    /\ sectionHeaders = <<>>
    /\ symbols = <<>>
    /\ dynamicEntries = <<>>
    /\ dynamicSectionOffset = 0
    /\ relocations = <<>>
    /\ stringTables = <<>>

Init ==
    /\ data \in GenInputs
    /\ pc = "start"
    /\ outcome = None
    /\ rd = NoReader
    /\ call = NoCall
    /\ InitLocals

\* an uncaught RangeError leaves parseElf
Throw(pos) ==
    /\ pc' = "done"
    /\ outcome' = "RangeError"
    /\ rd' = Seek(rd, pos)

\* the step is over and the next one is at label next
Goto(next, pos) ==
    /\ pc' = next
    /\ outcome' = outcome
    /\ rd' = Seek(rd, pos)

\* lines 701-709
Validate ==
    /\ pc = "start"
    /\ IF TooShort(data) \/ BadMagic(data)
       THEN pc' = "done" /\ outcome' = "Rejected" /\ rd' = rd
       ELSE pc' = "header" /\ outcome' = outcome /\ rd' = NewReader(data)
    /\ UNCHANGED <<edVars, data, call, parseVars>>

HeaderEnd(t) ==
    IF t.thrown THEN Throw(t.pos) /\ header' = header
    ELSE Goto("programHeaders", t.pos) /\ header' = t.out

\* lines 711-732
Header ==
    /\ pc = "header"
    /\ HeaderEnd(ReadHeader(data, rd))
    /\ UNCHANGED <<tree, edVars, data, call, programHeaders, sectionHeaders, symbols,
                   dynamicEntries, dynamicSectionOffset, relocations, stringTables>>

ProgramHeadersEnd(t) ==
    IF t.thrown THEN Throw(t.pos) /\ programHeaders' = programHeaders
    ELSE Goto("sectionHeaders", t.pos) /\ programHeaders' = t.out

\* lines 734-748
ProgramHeaders ==
    /\ pc = "programHeaders"
    /\ ProgramHeadersEnd(ReadProgramHeaders(data, rd, header[1]))
    /\ UNCHANGED <<tree, edVars, data, call, header, sectionHeaders, symbols,
                   dynamicEntries, dynamicSectionOffset, relocations, stringTables>>

SectionHeadersEnd(t) ==
    IF t.thrown THEN Throw(t.pos) /\ sectionHeaders' = sectionHeaders
    ELSE Goto("names", t.pos) /\ sectionHeaders' = t.out

\* lines 750-768
SectionHeaders ==
    /\ pc = "sectionHeaders"
    /\ SectionHeadersEnd(ReadSectionHeaders(data, rd, header[1]))
    /\ UNCHANGED <<tree, edVars, data, call, header, programHeaders, symbols,
                   dynamicEntries, dynamicSectionOffset, relocations, stringTables>>

\* lines 770-776
SectionNames ==
    /\ pc = "names"
    /\ sectionHeaders' = ResolveNames(data, header[1], sectionHeaders)
    /\ pc' = "symbols"
    /\ UNCHANGED <<tree, edVars, data, outcome, rd, call, header, programHeaders, symbols,
                   dynamicEntries, dynamicSectionOffset, relocations, stringTables>>

SymbolsEnd(t) ==
    IF t.thrown THEN Throw(t.pos) /\ symbols' = symbols
    ELSE Goto("dynamic", t.pos) /\ symbols' = t.out

\* lines 778-813
Symbols ==
    /\ pc = "symbols"
    /\ SymbolsEnd(ReadSymbols(data, rd, sectionHeaders))
    /\ UNCHANGED <<tree, edVars, data, call, header, programHeaders, sectionHeaders,
                   dynamicEntries, dynamicSectionOffset, relocations, stringTables>>

DynamicEnd(t) ==
    IF t.thrown THEN Throw(t.pos) /\ UNCHANGED <<dynamicEntries, dynamicSectionOffset>>
    ELSE /\ Goto("relocations", t.pos)
         /\ dynamicEntries' = t.out
         /\ dynamicSectionOffset' = t.off

\* lines 815-831
Dynamic ==
    /\ pc = "dynamic"
    /\ DynamicEnd(ReadDynamic(data, rd, sectionHeaders))
    /\ UNCHANGED <<tree, edVars, data, call, header, programHeaders, sectionHeaders, symbols,
                   relocations, stringTables>>

RelocationsEnd(t) ==
    IF t.thrown THEN Throw(t.pos) /\ relocations' = relocations
    ELSE Goto("strings", t.pos) /\ relocations' = t.out

\* lines 833-862
Relocations ==
    /\ pc = "relocations"
    /\ RelocationsEnd(ReadRelocations(data, rd, sectionHeaders, symbols))
    /\ UNCHANGED <<tree, edVars, data, call, header, programHeaders, sectionHeaders, symbols,
                   dynamicEntries, dynamicSectionOffset, stringTables>>

\* lines 864-881: the string tables, then the return of the model
StringTables ==
    /\ pc = "strings"
    /\ stringTables' = ReadStringTables(data, sectionHeaders)
    /\ pc' = "done"
    /\ outcome' = "Decoded"
    /\ UNCHANGED <<tree, edVars, data, rd, call, header, programHeaders, sectionHeaders, symbols,
                   dynamicEntries, dynamicSectionOffset, relocations>>

\* the tree provider builds the items of the model parseElf returned
BuildTree ==
    /\ pc = "done"
    /\ outcome = "Decoded"
    /\ tree' = BuildTreeOf(header[1], programHeaders, sectionHeaders, symbols,
                           dynamicEntries, relocations)
    /\ pc' = "shown"
    /\ UNCHANGED <<edVars, data, outcome, rd, call, header, programHeaders, sectionHeaders,
                   symbols, dynamicEntries, dynamicSectionOffset, relocations,
                   stringTables>>

Next ==
    \/ Validate
    \/ Header
    \/ ProgramHeaders
    \/ SectionHeaders
    \/ SectionNames
    \/ Symbols
    \/ Dynamic
    \/ Relocations
    \/ StringTables
    \/ BuildTree

Spec == Init /\ [][Next]_vars

-----------------------------------------------------------------------------
(* The Reader exercised alone: a client constructs a Reader over a buffer    *)
(* and calls its methods in any order.  call records the last call: the      *)
(* method, the cursor it was made at, the width it asked for, whether it     *)
(* threw and the value it returned.                                           *)

\* byte k of the buffers of this specification
RdByte(k) == (83 * k + 45) % 256

RdBuffers == { [k \in 1..n |-> RdByte(k)] : n \in 0..RdLen }

InitReader ==
    /\ data \in RdBuffers
    /\ pc = "reader"
    /\ outcome = None
    /\ rd \in { [is64 |-> a, isLE |-> b, pos |-> 0] : a \in BOOLEAN, b \in BOOLEAN }
    /\ call = NoCall
    /\ InitLocals

\* a method returns, or throws and leaves the cursor where the read left it
Returns(op, w, t) ==
    /\ call' = [op |-> op, at |-> rd.pos, w |-> w, thrown |-> t.thrown,
                val |-> IF t.thrown THEN Nothing ELSE Some(t.val)]
    /\ rd' = Seek(rd, t.pos)
    /\ UNCHANGED <<edVars, data, pc, outcome, parseVars>>

\* r.seek(p)
CallSeek ==
    /\ pc = "reader"
    /\ \E p \in 0..(RdLen + 1) :
          /\ rd' = Seek(rd, p)
          /\ call' = [op |-> "seek", at |-> rd.pos, w |-> 0, thrown |-> FALSE,
                      val |-> Nothing]
    /\ UNCHANGED <<edVars, data, pc, outcome, parseVars>>

\* r.u8(); the cursor grows with every call, so the calls are cut off at RdLen + 1
CallU8 == pc = "reader" /\ rd.pos <= RdLen + 1 /\ Returns("u8", 1, Read(data, rd, "u8"))

\* r.u16()
CallU16 == pc = "reader" /\ Returns("u16", 2, Read(data, rd, "u16"))

\* r.u32()
CallU32 == pc = "reader" /\ Returns("u32", 4, Read(data, rd, "u32"))

\* r.u64()
CallU64 == pc = "reader" /\ Returns("u64", 8, Read(data, rd, "u64"))

\* r.addr(), r.off(), r.xword()
CallAddr ==
    /\ pc = "reader"
    /\ \E kind \in {"addr", "off", "xword"} :
          Returns(kind, Width(kind, rd.is64), Read(data, rd, kind))

\* r.sxword()
CallSxword ==
    /\ pc = "reader"
    /\ Returns("sxword", Width("sxword", rd.is64), Read(data, rd, "sxword"))

NextReader ==
    \/ CallSeek
    \/ CallU8
    \/ CallU16
    \/ CallU32
    \/ CallU64
    \/ CallAddr
    \/ CallSxword

SpecReader == InitReader /\ [][NextReader]_vars

-----------------------------------------------------------------------------
(* Properties.  The values stored in the file are taken from the bytes of    *)
(* data directly, without the Reader.                                         *)

Magic == <<127, 69, 76, 70>>

\* the w-byte value stored at offset off in the byte order the data byte
\* (offset 5) names, least significant byte first
Stored(buf, off, w) ==
    IF buf[6] = 1 THEN [k \in 1..w |-> buf[off + k]]
    ELSE [k \in 1..w |-> buf[off + w + 1 - k]]

Stored16(buf, off) == Stored(buf, off, 2)[1] + 256 * Stored(buf, off, 2)[2]

\* class and data bytes both name a variant
Supported(buf) == buf[5] \in {1, 2} /\ buf[6] \in {1, 2}

\* the program header loop has run to its end
PhDone ==
    \/ pc \in {"sectionHeaders", "names", "symbols", "dynamic", "relocations", "strings"}
    \/ outcome = "Decoded"

\* the section names have been resolved
NamesDone ==
    \/ pc \in {"symbols", "dynamic", "relocations", "strings"}
    \/ outcome = "Decoded"

\* how many of the sections 1..n (as positions of shs) have a type in types
Pos(shs, n, types) == Cardinality({k \in 1..n : Num(shs[k].type) \in types})

\* C1: a finished call of parseElf has returned a model (Decoded) or the
\* rejection value (Rejected); it never ends any other way.
C1_TwoOutcomes == pc = "done" => outcome \in {"Decoded", "Rejected"}

\* C2: for a buffer shorter than 52 bytes or without the magic, parseElf does
\* nothing but reject: it never gets past the validation, ends Rejected, and
\* no header and no table is ever built.
C2_NotElfRejected ==
    (Len(data) < 52 \/ SubSeq(data, 1, 4) # Magic) =>
        /\ pc \in {"start", "done"}
        /\ outcome \in {None, "Rejected"}
        /\ pc = "done" => outcome = "Rejected"
        /\ InitLocals

C2_Witness == pc = "done" /\ Len(data) = 51 /\ outcome = "Rejected" /\ InitLocals

\* C3: a buffer of at least 52 bytes with the magic whose class or data byte
\* is neither 1 nor 2 is rejected, and no header is built from it.
C3_UnsupportedVariantRejected ==
    (/\ Len(data) >= 52
     /\ SubSeq(data, 1, 4) = Magic
     /\ ~Supported(data)) =>
        /\ header = Nothing
        /\ pc = "done" => outcome = "Rejected"

\* C4: once the header is decoded the call returns a model whatever the tables
\* hold, and the model has every program header entry that lies inside the
\* buffer.
C4_OutOfBoundsEntrySkipped ==
    (pc = "done" /\ header # Nothing) =>
        /\ outcome = "Decoded"
        /\ \A i \in 0..(header[1].phnum - 1) :
              (Num(header[1].phoff) + i * header[1].phentsize
                   + (IF data[5] = 2 THEN 56 ELSE 32) <= Len(data)) =>
                  \E k \in 1..Len(programHeaders) :
                      programHeaders[k].type =
                          Stored(data, Num(header[1].phoff) + i * header[1].phentsize, 4)

\* C5: a read of w bytes made at a cursor p with p + w beyond the end of the
\* buffer throws and returns no value.
C5_ReadPastEndFails ==
    (call.op \notin {"none", "seek"} /\ call.at + call.w > Len(data)) =>
        (call.thrown /\ call.val = Nothing)

\* C6: for class and data in {1, 2} the decoded header fields are the values
\* stored at the fixed offsets of the variant, in the variant's byte order:
\* type@16, machine@18, entry@24, then 32-bit phoff@28 shoff@32 flags@36
\* ehsize@40 .. shstrndx@50, 64-bit phoff@32 shoff@40 flags@48 ehsize@52 ..
\* shstrndx@62.
C6_HeaderFieldsAtFixedOffsets ==
    (header # Nothing /\ Supported(data)) =>
        LET h == header[1]
            w == IF data[5] = 2 THEN 8 ELSE 4
            o == IF data[5] = 2 THEN <<24, 32, 40, 48, 52, 54, 56, 58, 60, 62>>
                 ELSE <<24, 28, 32, 36, 40, 42, 44, 46, 48, 50>>
        IN /\ h.class = data[5] /\ h.data = data[6]
           /\ h.type = Stored16(data, 16)
           /\ h.machine = Stored16(data, 18)
           /\ h.entry = Stored(data, o[1], w)
           /\ h.phoff = Stored(data, o[2], w)
           /\ h.shoff = Stored(data, o[3], w)
           /\ h.flags = Stored(data, o[4], 4)
           /\ h.ehsize = Stored16(data, o[5])
           /\ h.phentsize = Stored16(data, o[6])
           /\ h.phnum = Stored16(data, o[7])
           /\ h.shentsize = Stored16(data, o[8])
           /\ h.shnum = Stored16(data, o[9])
           /\ h.shstrndx = Stored16(data, o[10])

C6_Witness ==
    /\ header # Nothing
    /\ data[5] = 2 /\ data[6] = 2
    /\ Num(header[1].phoff) = 64
    /\ Num(header[1].shoff) > 64
    /\ header[1].shstrndx = 1

\* C7: when the program header loop has run to its end there are exactly
\* phnum entries, and entry i holds the values stored at phoff + i * phentsize
\* plus: 64-bit type@0 flags@4 offset@8 vaddr@16 paddr@24 filesz@32 memsz@40
\* align@48; 32-bit type@0 offset@4 vaddr@8 paddr@12 filesz@16 memsz@20
\* flags@24 align@28.
C7_ProgramHeaderLayout ==
    (PhDone /\ Supported(data)) =>
        /\ Len(programHeaders) = header[1].phnum
        /\ \A i \in 0..(header[1].phnum - 1) :
              LET at == Num(header[1].phoff) + i * header[1].phentsize
                  e == programHeaders[i + 1]
              IN IF data[5] = 2
                 THEN /\ e.type = Stored(data, at, 4)
                      /\ e.flags = Stored(data, at + 4, 4)
                      /\ e.offset = Stored(data, at + 8, 8)
                      /\ e.vaddr = Stored(data, at + 16, 8)
                      /\ e.paddr = Stored(data, at + 24, 8)
                      /\ e.filesz = Stored(data, at + 32, 8)
                      /\ e.memsz = Stored(data, at + 40, 8)
                      /\ e.align = Stored(data, at + 48, 8)
                 ELSE /\ e.type = Stored(data, at, 4)
                      /\ e.offset = Stored(data, at + 4, 4)
                      /\ e.vaddr = Stored(data, at + 8, 4)
                      /\ e.paddr = Stored(data, at + 12, 4)
                      /\ e.filesz = Stored(data, at + 16, 4)
                      /\ e.memsz = Stored(data, at + 20, 4)
                      /\ e.flags = Stored(data, at + 24, 4)
                      /\ e.align = Stored(data, at + 28, 4)

C7_Witness ==
    /\ outcome = "Decoded"
    /\ data[5] = 1 /\ data[6] = 2
    /\ Len(programHeaders) >= 2
    /\ Num(programHeaders[2].flags) = 5
    /\ Num(programHeaders[2].offset) # Num(programHeaders[1].offset)

\* C8: once the names are resolved, if shstrndx is an index of the section
\* table every section's name is the string at the designated section's file
\* offset plus the section's nameIdx (so equal nameIdx give equal names), and
\* otherwise every name is empty; resolving the names never ends the call.
C8_SectionNames ==
    /\ NamesDone =>
          IF header[1].shstrndx < Len(sectionHeaders)
          THEN \A k \in 1..Len(sectionHeaders) :
                  sectionHeaders[k].name =
                      readCString(data,
                                  Num(sectionHeaders[header[1].shstrndx + 1].offset)
                                      + Num(sectionHeaders[k].nameIdx))
          ELSE \A k \in 1..Len(sectionHeaders) : sectionHeaders[k].name = <<>>
    /\ NamesDone =>
          \A j, k \in 1..Len(sectionHeaders) :
              sectionHeaders[j].nameIdx = sectionHeaders[k].nameIdx =>
                  sectionHeaders[j].name = sectionHeaders[k].name
    /\ pc = "names" => outcome = None

C8_Witness ==
    /\ outcome = "Decoded"
    /\ Len(sectionHeaders) >= 2
    /\ header[1].shstrndx >= Len(sectionHeaders)
    /\ \A k \in 1..Len(sectionHeaders) : sectionHeaders[k].name = <<>>
    /\ \E k \in 1..Len(sectionHeaders) : ~IsZero(sectionHeaders[k].nameIdx)

\* C9: in a returned model, for every REL/RELA section whose link is the index
\* of a SYMTAB/DYNSYM section, every entry whose symbol index is nonzero and
\* below the length of the table decoded from that section has that table's
\* symbol name at that index as its symbolName.
C9_NamesFromLinkedTable ==
    outcome = "Decoded" =>
        \A n \in 1..Len(sectionHeaders) :
            (/\ Num(sectionHeaders[n].type) \in {4, 9}
             /\ Num(sectionHeaders[n].link) < Len(sectionHeaders)
             /\ Num(sectionHeaders[Num(sectionHeaders[n].link) + 1].type) \in {2, 11}) =>
                LET rel == relocations[Pos(sectionHeaders, n, {4, 9})]
                    tab == symbols[Pos(sectionHeaders,
                                       Num(sectionHeaders[n].link) + 1, {2, 11})]
                IN \A j \in 1..Len(rel.entries) :
                      (/\ rel.entries[j].symIdx > 0
                       /\ rel.entries[j].symIdx < Len(tab.symbols)) =>
                          rel.entries[j].symbolName =
                              Some(tab.symbols[rel.entries[j].symIdx + 1].name)

\* C10, as stated: the symbol index of a relocation entry is the low-order
\* byte of info in a 32-bit file and info >> 32 in a 64-bit file.
C10_SymIdxLowByte ==
    \A t \in 1..Len(relocations) : \A j \in 1..Len(relocations[t].entries) :
        LET e == relocations[t].entries[j]
        IN Supported(data) =>
              e.symIdx = IF data[5] = 2 THEN Num(SubSeq(e.info, 5, 8)) ELSE e.info[1]

\* C10, amended: the symbol index of a relocation entry is info >> 8 (the
\* high-order 24 bits) in a 32-bit file and info >> 32 in a 64-bit file.
C10_SymIdxShift ==
    \A t \in 1..Len(relocations) : \A j \in 1..Len(relocations[t].entries) :
        LET e == relocations[t].entries[j]
        IN Supported(data) =>
              e.symIdx = IF data[5] = 2 THEN Num(SubSeq(e.info, 5, 8))
                         ELSE Num(SubSeq(e.info, 2, 4))

C10_Witness ==
    /\ outcome = "Decoded"
    /\ data[5] = 1
    /\ \E t \in 1..Len(relocations) : \E j \in 1..Len(relocations[t].entries) :
          /\ relocations[t].entries[j].info[1] = 7
          /\ relocations[t].entries[j].symIdx = 2
          /\ relocations[t].entries[j].symbolName # Nothing

\* the REL/RELA section at position n of the section table resolves no name
\* for symbol index i: i is zero, or the link is no index of the section
\* table, or the linked section is no SYMTAB/DYNSYM section, or i is not
\* below the length of the table decoded from the linked section
NoSymbol(shs, syms, n, i) ==
    \/ i = 0
    \/ Num(shs[n].link) >= Len(shs)
    \/ Num(shs[Num(shs[n].link) + 1].type) \notin {2, 11}
    \/ i >= Len(syms[Pos(shs, Num(shs[n].link) + 1, {2, 11})].symbols)

\* C11: in a returned model, an entry of a REL/RELA section whose symbol index
\* is zero, or not below the length of the linked symbol table, or whose
\* section's link designates no decoded symbol table, has no symbolName.
C11_NoSymbolNoName ==
    outcome = "Decoded" =>
        \A n \in 1..Len(sectionHeaders) :
            Num(sectionHeaders[n].type) \in {4, 9} =>
                \A j \in 1..Len(relocations[Pos(sectionHeaders, n, {4, 9})].entries) :
                    NoSymbol(sectionHeaders, symbols, n,
                             relocations[Pos(sectionHeaders, n, {4, 9})].entries[j].symIdx)
                        => relocations[Pos(sectionHeaders, n, {4, 9})].entries[j].symbolName
                               = Nothing

\* C12: in a returned model, every entry of the string table of a STRTAB
\* section with offset off and size n starts at or after off, and the bytes
\* of its text end at or before min(off + n, buffer length).
C12_WalkInsideExtent ==
    outcome = "Decoded" =>
        \A n \in 1..Len(sectionHeaders) :
            Num(sectionHeaders[n].type) = 3 =>
                \A j \in 1..Len(stringTables[Pos(sectionHeaders, n, {3})].strings) :
                    LET e == stringTables[Pos(sectionHeaders, n, {3})].strings[j]
                    IN /\ Num(sectionHeaders[n].offset) <= e.fileOffset
                       /\ IndexOfNul(data, e.fileOffset)
                              <= Min(Num(sectionHeaders[n].offset)
                                         + Num(sectionHeaders[n].size), Len(data))

\* the NUL-terminated runs of the bytes off .. end - 1 of buf that are not
\* empty, in increasing offset order: a run starts at off or after a NUL, at
\* a byte that is not NUL; it is given with the offset of its first byte and
\* its number of bytes plus one
RunStarts(buf, off, end) ==
    SelectSeq([i \in 1 .. Min(end, Len(buf)) - off |-> off + i - 1],
              LAMBDA p : At(buf, p) # 0 /\ (p = off \/ At(buf, p - 1) = 0))

Runs(buf, off, end) ==
    [i \in 1 .. Len(RunStarts(buf, off, end)) |->
        [fileOffset |-> RunStarts(buf, off, end)[i],
         length |-> IndexOfNul(buf, RunStarts(buf, off, end)[i])
                        - RunStarts(buf, off, end)[i] + 1]]

\* the offset and the length of every entry of a string table
Spans(strs) == [i \in 1 .. Len(strs) |-> [fileOffset |-> strs[i].fileOffset,
                                          length |-> strs[i].length]]

\* C13: the entries of the string table of a STRTAB section are exactly the
\* non-empty NUL-terminated runs of the section in increasing offset order,
\* each with the offset of its first character and a length equal to the
\* run's byte count plus one; an empty run gives no entry
C13_EntriesAreRuns ==
    outcome = "Decoded" =>
        \A n \in 1 .. Len(sectionHeaders) :
            Num(sectionHeaders[n].type) = 3 =>
                Spans(stringTables[Pos(sectionHeaders, n, {3})].strings)
                    = Runs(data, Num(sectionHeaders[n].offset),
                           Num(sectionHeaders[n].offset) + Num(sectionHeaders[n].size))

\* C14: the span of every string-table entry agrees with the buffer, whatever
\* the bytes of the section: decoding the buffer bytes from fileOffset up to
\* the terminator gives the entry's value, and length is the number of buffer
\* bytes the run occupies, its terminator included
C14_SpanAgreesWithBuffer ==
    outcome = "Decoded" =>
        \A t \in 1 .. Len(stringTables) :
            \A j \in 1 .. Len(stringTables[t].strings) :
                LET e == stringTables[t].strings[j]
                IN /\ e.fileOffset < Len(data)
                   /\ Utf8(data, e.fileOffset, IndexOfNul(data, e.fileOffset)) = e.value
                   /\ IndexOfNul(data, e.fileOffset) < Len(data)
                        => e.length = IndexOfNul(data, e.fileOffset) - e.fileOffset + 1

\* C15: for every SYMTAB/DYNSYM section the number of decoded symbol entries
\* is floor(size / entrySize), entrySize being the declared entry size or,
\* when that is zero, 24 (64-bit) / 16 (32-bit); a trailing partial entry is
\* not decoded
C15_SymbolCountIsFloor ==
    outcome = "Decoded" =>
        \A n \in 1 .. Len(sectionHeaders) :
            Num(sectionHeaders[n].type) \in {2, 11} =>
                Len(symbols[Pos(sectionHeaders, n, {2, 11})].symbols)
                    = Num(sectionHeaders[n].size)
                        \div EntSize(sectionHeaders[n], SymEntDefault(rd.is64))

\* C16: in every returned model the span of every symbol entry lies inside
\* the buffer: _fileOffset >= 0 and _fileOffset + _entSize <= buffer length
C16_SymbolSpanInBuffer ==
    outcome = "Decoded" =>
        \A t \in 1 .. Len(symbols) :
            \A j \in 1 .. Len(symbols[t].symbols) :
                /\ symbols[t].symbols[j].fileOffset >= 0
                /\ symbols[t].symbols[j].fileOffset + symbols[t].symbols[j].entSize
                       <= Len(data)

\* the tag of the dynamic entry at offset at is 0: the bytes of an
\* address-sized field are all zero
TagZero(buf, is64, at) == \A k \in 0 .. AW(is64) - 1 : At(buf, at + k) = 0

\* the number of entries a DYNAMIC section sh is to yield: up to and with the
\* first entry of tag 0 that precedes the declared end, size / entrySize
\* entries when there is none
DynCount(buf, is64, sh) ==
    LET es == EntSize(sh, DynEntDefault(is64))
        n == Num(sh.size) \div es
        Z == { i \in 0 .. n - 1 : TagZero(buf, is64, Num(sh.offset) + i * es) }
    IN IF Z = {} THEN n ELSE 1 + CHOOSE i \in Z : \A k \in Z : i <= k

\* the offsets of those entries, for the DYNAMIC sections k .. Len(shs) in order
RECURSIVE DynOffsets(_, _, _, _)
DynOffsets(buf, is64, shs, k) ==
    IF k > Len(shs) THEN <<>>
    ELSE IF Num(shs[k].type) # 6 THEN DynOffsets(buf, is64, shs, k + 1)
    ELSE [i \in 1 .. DynCount(buf, is64, shs[k]) |->
             Num(shs[k].offset) + (i - 1) * EntSize(shs[k], DynEntDefault(is64))]
         \o DynOffsets(buf, is64, shs, k + 1)

\* C17: the entries of each DYNAMIC section are enumerated in order up to the
\* first entry whose tag is 0, none after it; a section without terminator
\* yields size / entrySize entries (entrySize declared, or 16/8 bytes for
\* 64/32-bit when zero), and the decode does not fail on dynamic sections
C17_DynamicEnumeration ==
    /\ pc = "dynamic" => ~ReadDynamic(data, rd, sectionHeaders).thrown
    /\ outcome = "Decoded" =>
           [i \in 1 .. Len(dynamicEntries) |-> dynamicEntries[i].fileOffset]
               = DynOffsets(data, rd.is64, sectionHeaders, 1)

\* the bytes of the value an item shows, least significant first
FieldDigits(f) ==
    CASE f.kind = "u8" -> <<f.value>>
      [] f.kind = "u16" -> <<f.value % 256, f.value \div 256>>
      [] f.kind = "sxword" -> IF f.value.neg THEN Negate(f.value.mag) ELSE f.value.mag
      [] OTHER -> f.value

\* the span of item f lies in the buffer and holds the value f shows, in the
\* byte order of the file
FieldOk(f) ==
    /\ f.offset >= 0
    /\ f.size > 0
    /\ f.offset + f.size <= Len(data)
    /\ Stored(data, f.offset, f.size) = FieldDigits(f)

AllOk(fields) == \A k \in 1 .. Len(fields) : FieldOk(fields[k])

\* C18: the (byte offset, byte size) of every field item of the header, of a
\* program header, a section header, a symbol, a dynamic entry or a
\* relocation entry is where the decoder read the field: the bytes of that
\* range, taken in the file's byte order, are the decoded value
C18_FieldSpansRoundTrip ==
    pc = "shown" =>
        /\ AllOk(tree.header)
        /\ \A i \in 1 .. Len(tree.programHeaders) : AllOk(tree.programHeaders[i].fields)
        /\ \A i \in 1 .. Len(tree.sectionHeaders) : AllOk(tree.sectionHeaders[i].fields)
        /\ \A t \in 1 .. Len(tree.symbols) :
               \A i \in 1 .. Len(tree.symbols[t].children) :
                   AllOk(tree.symbols[t].children[i].fields)
        /\ \A i \in 1 .. Len(tree.dynamic) : AllOk(tree.dynamic[i].fields)
        /\ \A t \in 1 .. Len(tree.relocations) :
               \A i \in 1 .. Len(tree.relocations[t].children) :
                   AllOk(tree.relocations[t].children[i].fields)

\* a 64-bit big-endian file is shown with program headers, section headers,
\* symbols, a dynamic entry of tag 0 and a relocation entry with a negative
\* addend
C18_Witness ==
    /\ pc = "shown"
    /\ data[5] = 2 /\ data[6] = 2
    /\ Len(tree.programHeaders) = NPh
    /\ Len(tree.sectionHeaders) = GenNSec
    /\ Len(tree.symbols) = 2
    /\ Len(tree.dynamic) = 2 /\ SignedIsZero(tree.dynamic[2].fields[1].value)
    /\ \E t \in 1 .. Len(tree.relocations) :
           \E i \in 1 .. Len(tree.relocations[t].children) :
               /\ Len(tree.relocations[t].children[i].fields) = 3
               /\ tree.relocations[t].children[i].fields[3].value.neg

C20_NoDataSpanForNobits ==
    pc = "shown" =>
        /\ Len(tree.sectionHeaders) = Len(sectionHeaders)
        /\ \A i \in 1 .. Len(sectionHeaders) :
               /\ Num(sectionHeaders[i].type) = 8 => tree.sectionHeaders[i].data = Nothing
               /\ tree.sectionHeaders[i].data # Nothing =>
                      /\ Num(sectionHeaders[i].type) # 8
                      /\ ~IsZero(sectionHeaders[i].size)
                      /\ tree.sectionHeaders[i].data[1]
                             = [offset |-> Num(sectionHeaders[i].offset),
                                size |-> Num(sectionHeaders[i].size)]

\* a NOBITS section of size 4096 is shown without data span, next to a section
\* of another type that has one
C20_Witness ==
    /\ pc = "shown"
    /\ \E i \in 1 .. Len(sectionHeaders) :
           /\ Num(sectionHeaders[i].type) = 8
           /\ Num(sectionHeaders[i].size) = 4096
           /\ tree.sectionHeaders[i].data = Nothing
    /\ \E i \in 1 .. Len(sectionHeaders) :
           /\ Num(sectionHeaders[i].type) = 3
           /\ tree.sectionHeaders[i].data
                  = Some([offset |-> Num(sectionHeaders[i].offset),
                          size |-> Num(sectionHeaders[i].size)])

\* the slots <<t, j>> of the decoded symbol tables whose symbol has a name or
\* a value that is not zero
Presented(syms) ==
    { q \in UNION { { <<t, j>> : j \in 1 .. Len(syms[t].symbols) } : t \in 1 .. Len(syms) } :
        syms[q[1]].symbols[q[2]].name # <<>> \/ ~IsZero(syms[q[1]].symbols[q[2]].value) }

\* the symbol items of the tree, as <<group, child>>
SymbolItems(tr) ==
    UNION { { <<g, i>> : i \in 1 .. Len(tr.symbols[g].children) } : g \in 1 .. Len(tr.symbols) }

\* C21: a symbol whose name is empty and whose value is zero is not among the
\* symbols presented, the others are; it keeps its slot in the decoded table:
\* symbol index k of a relocation entry refers to entry k of the table decoded
\* from the linked section, excluded entries counted
C21_ExcludedKeepsSlot ==
    pc = "shown" =>
        /\ Cardinality(SymbolItems(tree)) = Cardinality(Presented(symbols))
        /\ \A n \in 1 .. Len(sectionHeaders) :
               (/\ Num(sectionHeaders[n].type) \in {4, 9}
                /\ Num(sectionHeaders[n].link) < Len(sectionHeaders)
                /\ Num(sectionHeaders[Num(sectionHeaders[n].link) + 1].type) \in {2, 11}) =>
                   \A j \in 1 .. Len(relocations[Pos(sectionHeaders, n, {4, 9})].entries) :
                       LET k == relocations[Pos(sectionHeaders, n, {4, 9})].entries[j].symIdx
                           tab == symbols[Pos(sectionHeaders,
                                              Num(sectionHeaders[n].link) + 1, {2, 11})].symbols
                       IN (k > 0 /\ k < Len(tab)) =>
                              relocations[Pos(sectionHeaders, n, {4, 9})].entries[j].symbolName
                                  = Some(tab[k + 1].name)

\* C22: every entry decoded from a RELA section (type 4) has an addend, the
\* address-sized value that follows info read as a signed value; every entry
\* decoded from a REL section (type 9) has no addend
C22_AddendOnlyInRela ==
    outcome = "Decoded" =>
        \A n \in 1 .. Len(sectionHeaders) :
            Num(sectionHeaders[n].type) \in {4, 9} =>
                \A j \in 1 .. Len(relocations[Pos(sectionHeaders, n, {4, 9})].entries) :
                    LET e == relocations[Pos(sectionHeaders, n, {4, 9})].entries[j]
                    IN IF Num(sectionHeaders[n].type) = 4
                       THEN e.addend
                                = Some(ToSigned(Stored(data, e.fileOffset + 2 * AW(rd.is64),
                                                       AW(rd.is64))))
                       ELSE e.addend = Nothing

\* a model is returned with a RELA table that has a negative and a positive
\* addend and with a REL table that has entries
C22_Witness ==
    /\ outcome = "Decoded"
    /\ \E t \in 1 .. Len(relocations) :
           /\ \E j \in 1 .. Len(relocations[t].entries) :
                  relocations[t].entries[j].addend # Nothing
                      /\ relocations[t].entries[j].addend[1].neg
           /\ \E j \in 1 .. Len(relocations[t].entries) :
                  relocations[t].entries[j].addend # Nothing
                      /\ ~relocations[t].entries[j].addend[1].neg
                      /\ ~IsZero(relocations[t].entries[j].addend[1].mag)
    /\ \E t \in 1 .. Len(relocations) :
           Len(relocations[t].entries) > 0 /\ relocations[t].entries[1].addend = Nothing

\* the number written by hexadecimal digits, most significant first
HexValue(d) == IF Len(d) = 2 THEN 16 * d[1] + d[2] ELSE -1

\* C23: for every value of a symbol's info byte the binding presented is
\* info >> 4 and the type presented is info & 0xF, both on the single byte
\* span of info
C23_BindingAndTypeOfInfo ==
    pc = "shown" =>
        \A g \in 1 .. Len(tree.symbols) :
            \A i \in 1 .. Len(tree.symbols[g].children) :
                LET c == tree.symbols[g].children[i]
                IN /\ c.parts[1].offset = c.fields[2].offset /\ c.parts[1].size = 1
                   /\ c.parts[2].offset = c.fields[2].offset /\ c.parts[2].size = 1
                   /\ c.fields[2].size = 1
                   /\ HexValue(c.parts[1].value) = At(data, c.fields[2].offset) \div 16
                   /\ HexValue(c.parts[2].value) = At(data, c.fields[2].offset) % 16

\* the values of the info byte of the symbols shown, over all trees
C23_Witness ==
    /\ pc = "shown"
    /\ \E g \in 1 .. Len(tree.symbols) :
           \E i \in 1 .. Len(tree.symbols[g].children) :
               /\ tree.symbols[g].children[i].fields[2].value = 255
               /\ tree.symbols[g].children[i].parts[1].value = <<0, 15>>
               /\ tree.symbols[g].children[i].parts[2].value = <<0, 15>>

-----------------------------------------------------------------------------
(* ElfDocument (hex-view.ts).  A document is the record                       *)
(*   data            the buffer, one byte per element                        *)
(*   _edits          the edit log, oldest first                              *)
(*   _savedEditCount the length of the log at the last save                  *)
(* Offsets count from 0 as in the source.  The file the document was read    *)
(* from is kept next to it, with the content as last read from the file and  *)
(* as last written to it, and the value the last method returned.            *)

DocLen == 2                      \* bytes in the edited file
DocVals == {0, 255}              \* byte values a file or an edit may hold
MaxEdits == 3                    \* longest edit log explored

DocFiles == [1 .. DocLen -> DocVals]

\* constructor: data is read from the file, the log is empty
NewDocument(file) ==
    [data |-> file, _edits |-> <<>>, _savedEditCount |-> 0]

applyEdit(d, offset, newValue) ==
    [d EXCEPT !.data[offset + 1] = newValue,
              !._edits = Append(@, [offset |-> offset,
                                    oldValue |-> d.data[offset + 1],
                                    newValue |-> newValue])]

\* the document after undoEdit; the log is popped when it is not empty
undoEdit(d) ==
    IF d._edits = <<>> THEN d
    ELSE LET edit == d._edits[Len(d._edits)]
         IN  [d EXCEPT !.data[edit.offset + 1] = edit.oldValue,
                       !._edits = SubSeq(@, 1, Len(@) - 1)]

\* what undoEdit returns
undoEditResult(d) ==
    IF d._edits = <<>> THEN Undefined
    ELSE LET edit == d._edits[Len(d._edits)]
         IN  [offset |-> edit.offset, value |-> edit.oldValue]

isDirty(d) == Len(d._edits) # d._savedEditCount

save(d) == [d EXCEPT !._savedEditCount = Len(d._edits)]

\* the parse variables while no decode is modelled
ParseIdle ==
    /\ data = <<>>
    /\ pc = "idle"
    /\ outcome = None
    /\ rd = NoReader
    /\ call = NoCall
    /\ tree = NoTree
    /\ header = Nothing
    /\ programHeaders = <<>>
    /\ sectionHeaders = <<>>
    /\ symbols = <<>>
    /\ dynamicEntries = <<>>
    /\ dynamicSectionOffset = 0
    /\ relocations = <<>>
    /\ stringTables = <<>>

InitDocument ==
    /\ \E file \in DocFiles :
          doc = [d |-> NewDocument(file), file |-> file, loaded |-> file,
                 saved |-> file, reverted |-> FALSE, ret |-> Undefined]
    /\ ed = NoEditor
    /\ ui = NoClicks
    /\ ParseIdle

DocApplyEdit ==
    /\ Len(doc.d._edits) < MaxEdits
    /\ \E offset \in 0 .. DocLen - 1, newValue \in DocVals :
          doc' = [doc EXCEPT !.d = applyEdit(@, offset, newValue),
                             !.ret = [oldValue |-> doc.d.data[offset + 1]]]
    /\ UNCHANGED <<ed, ui, tree, data, pc, outcome, rd, call, parseVars>>

DocUndoEdit ==
    /\ doc' = [doc EXCEPT !.d = undoEdit(@), !.ret = undoEditResult(doc.d)]
    /\ UNCHANGED <<ed, ui, tree, data, pc, outcome, rd, call, parseVars>>

\* save writes the buffer to the file
DocSave ==
    /\ doc' = [doc EXCEPT !.d = save(@), !.file = doc.d.data,
                          !.saved = doc.d.data, !.ret = Undefined]
    /\ UNCHANGED <<ed, ui, tree, data, pc, outcome, rd, call, parseVars>>

\* revertCustomDocument reads the file again; the log is left as it is
DocRevert ==
    /\ doc' = [doc EXCEPT !.d.data = doc.file, !.loaded = doc.file,
                          !.reverted = TRUE, !.ret = Undefined]
    /\ UNCHANGED <<ed, ui, tree, data, pc, outcome, rd, call, parseVars>>

NextDocument ==
    \/ DocApplyEdit
    \/ DocUndoEdit
    \/ DocSave
    \/ DocRevert

SpecDocument == InitDocument /\ [][NextDocument]_vars

-----------------------------------------------------------------------------
(* The custom editor (hex-view.ts) with one document open in one webview.    *)
(* ed is the record                                                          *)
(*   web        the webview script's bytes, editingOffset and editNibble     *)
(*   toHost     edit messages posted by the webview, not yet received        *)
(*   toWeb      updateByte messages posted to the webview, not yet received  *)
(*   undoStack  the edits the host can undo, oldest first: one per           *)
(*   redoStack  onDidChangeCustomDocument event, with the values its         *)
(*              undo and redo callbacks closed over                          *)
(*   decoded    the buffer the tree provider decoded last                    *)
(*   ops        the number of digits typed, writeBytes calls, saves and       *)
(*              reverts so far                                               *)

COLS == 16
MaxOps == 2                      \* edits, saves and reverts explored
MaxInFlight == 2                 \* messages waiting in one direction
EdFile == <<0, 255>>             \* the file opened in the editor

\* the script's state after the page is loaded with the buffer raw
NewWebview(raw) ==
    [bytes |-> raw, fileSize |-> Len(raw), editingOffset |-> -1, editNibble |-> 0]

startEdit(w, offset) == [w EXCEPT !.editingOffset = offset, !.editNibble = 0]

stopEdit(w) == [w EXCEPT !.editingOffset = -1, !.editNibble = 0]

\* the digit always put into the high nibble
NewByteHigh(oldByte, editNibble, hexDigit) == hexDigit * 16 + (oldByte % 16)

\* the byte a hex digit makes of oldByte in nibble phase editNibble
NewByte(oldByte, editNibble, hexDigit) ==
    IF editNibble = 0 THEN hexDigit * 16 + (oldByte % 16)
    ELSE (oldByte \div 16) * 16 + hexDigit

\* parseInt(e.key, 16) for a key of one character that is a hex digit, and
\* Undefined where the handler takes the key for none
KeyDigit(key) ==
    CASE key = "0" -> 0 [] key = "1" -> 1 [] key = "2" -> 2 [] key = "3" -> 3
      [] key = "4" -> 4 [] key = "5" -> 5 [] key = "6" -> 6 [] key = "7" -> 7
      [] key = "8" -> 8 [] key = "9" -> 9
      [] key \in {"a", "A"} -> 10 [] key \in {"b", "B"} -> 11
      [] key \in {"c", "C"} -> 12 [] key \in {"d", "D"} -> 13
      [] key \in {"e", "E"} -> 14 [] key \in {"f", "F"} -> 15
      [] OTHER -> Undefined

\* the keys pressed: e.key and, for Tab, e.shiftKey
Keys ==
    { [key |-> k, shiftKey |-> FALSE] :
          k \in {"Escape", "ArrowRight", "ArrowLeft", "ArrowDown", "ArrowUp",
                 "Tab", "c", "g"} }
    \cup { [key |-> "Tab", shiftKey |-> TRUE] }

\* startEdit(next) if the handler's condition ok holds, nothing otherwise
MoveIf(w, ok, next) ==
    [web |-> IF ok THEN startEdit(w, next) ELSE w, post |-> <<>>]

\* a hex digit typed into the edited cell: the byte is changed in the nibble
\* phase, one edit message is posted, and after the low nibble the cursor
\* advances
TypeDigit(w, hexDigit) ==
    LET o == w.editingOffset
        newByte == NewByte(w.bytes[o + 1], w.editNibble, hexDigit)
        typed == [w EXCEPT !.bytes[o + 1] = newByte,
                           !.editNibble = 1 - w.editNibble]
    IN  [web |-> IF typed.editNibble = 0 /\ o < w.fileSize - 1
                 THEN startEdit(typed, o + 1)
                 ELSE typed,
         post |-> << [offset |-> o, newValue |-> newByte] >>]

\* the keydown handler: the script after it and the messages it posted
keydown(w, e) ==
    LET o == w.editingOffset
    IN  IF o < 0 THEN [web |-> w, post |-> <<>>]
        ELSE IF e.key = "Escape" THEN [web |-> stopEdit(w), post |-> <<>>]
        ELSE IF e.key = "ArrowRight" THEN MoveIf(w, o < w.fileSize - 1, o + 1)
        ELSE IF e.key = "ArrowLeft" THEN MoveIf(w, o > 0, o - 1)
        ELSE IF e.key = "ArrowDown" THEN MoveIf(w, o + COLS < w.fileSize, o + COLS)
        ELSE IF e.key = "ArrowUp" THEN MoveIf(w, o - COLS >= 0, o - COLS)
        ELSE IF e.key = "Tab"
             THEN LET next == IF e.shiftKey THEN o - 1 ELSE o + 1
                  IN  MoveIf(w, next >= 0 /\ next < w.fileSize, next)
        ELSE IF KeyDigit(e.key) # Undefined THEN TypeDigit(w, KeyDigit(e.key))
        ELSE [web |-> w, post |-> <<>>]

\* a listener that never decodes
refreshNever(e, buf) == e

\* the listener of onDidEditFile: the tree provider decodes the buffer
refreshFromBuffer(e, buf) == [e EXCEPT !.decoded = buf]

UserOp(e) == [e EXCEPT !.ops = @ + 1]

ElfIdle == UNCHANGED <<ui, tree, data, pc, outcome, rd, call, parseVars>>

InitEditor ==
    /\ LET file == EdFile
       IN /\ doc = [d |-> NewDocument(file), file |-> file, loaded |-> file,
                    saved |-> file, reverted |-> FALSE, ret |-> Undefined]
          /\ ed = [web |-> NewWebview(file), toHost |-> <<>>, toWeb |-> <<>>,
                   undoStack |-> <<>>, redoStack |-> <<>>, decoded |-> file,
                   ops |-> 0]
    /\ ui = NoClicks
    /\ ParseIdle

\* a click on the first or on the last cell
WebClick ==
    /\ \E i \in {0, ed.web.fileSize - 1} :
          ed' = [ed EXCEPT !.web = startEdit(@, i)]
    /\ UNCHANGED doc
    /\ ElfIdle

\* a click outside the cells
WebClickOutside ==
    /\ ed' = [ed EXCEPT !.web = stopEdit(@)]
    /\ UNCHANGED doc
    /\ ElfIdle

\* a key is pressed; a key that posts a message is a user operation
WebKeyDown ==
    /\ \E e \in Keys :
          LET r == keydown(ed.web, e)
          IN  /\ r.post # <<>> =>
                    ed.ops < MaxOps /\ Len(ed.toHost) < MaxInFlight
              /\ ed' = [ed EXCEPT !.web = r.web,
                                  !.toHost = @ \o r.post,
                                  !.ops = @ + Len(r.post)]
    /\ UNCHANGED doc
    /\ ElfIdle

\* the webview receives an updateByte message
WebUpdateByte ==
    /\ ed.toWeb # <<>>
    /\ LET msg == Head(ed.toWeb)
       IN  ed' = [ed EXCEPT !.web.bytes[msg.offset + 1] = msg.value,
                            !.toWeb = Tail(@)]
    /\ UNCHANGED doc
    /\ ElfIdle

\* onDidReceiveMessage, type 'edit'
HostEdit ==
    /\ ed.toHost # <<>>
    /\ LET msg == Head(ed.toHost)
           d == applyEdit(doc.d, msg.offset, msg.newValue)
       IN  /\ doc' = [doc EXCEPT !.d = d]
           /\ ed' = refreshFromBuffer(
                       [ed EXCEPT !.toHost = Tail(@),
                                  !.undoStack = Append(@, d._edits[Len(d._edits)]),
                                  !.redoStack = <<>>],
                       d.data)
    /\ ElfIdle

\* the host runs the undo callback of the last edit event
HostUndo ==
    /\ ed.undoStack # <<>>
    /\ Len(ed.toWeb) < MaxInFlight
    /\ LET edit == ed.undoStack[Len(ed.undoStack)]
           d == undoEdit(doc.d)
       IN  /\ doc' = [doc EXCEPT !.d = d]
           /\ ed' = refreshFromBuffer(
                       [ed EXCEPT
                           !.undoStack = SubSeq(@, 1, Len(@) - 1),
                           !.redoStack = Append(@, edit),
                           !.toWeb = Append(@, [offset |-> edit.offset,
                                                value |-> edit.oldValue])],
                       d.data)
    /\ ElfIdle

\* the host runs the redo callback of the edit event undone last
HostRedo ==
    /\ ed.redoStack # <<>>
    /\ Len(ed.toWeb) < MaxInFlight
    /\ LET edit == ed.redoStack[Len(ed.redoStack)]
           d == applyEdit(doc.d, edit.offset, edit.newValue)
       IN  /\ doc' = [doc EXCEPT !.d = d]
           /\ ed' = refreshFromBuffer(
                       [ed EXCEPT
                           !.redoStack = SubSeq(@, 1, Len(@) - 1),
                           !.undoStack = Append(@, edit),
                           !.toWeb = Append(@, [offset |-> edit.offset,
                                                value |-> edit.newValue])],
                       d.data)
    /\ ElfIdle

RECURSIVE writeBytesLoop(_, _, _)
\* the loop of writeBytes over [d, toWeb]: one applyEdit and one message a byte
writeBytesLoop(s, offset, bytes) ==
    IF bytes = <<>> THEN s
    ELSE writeBytesLoop(
             [d |-> applyEdit(s.d, offset, Head(bytes)),
              toWeb |-> Append(s.toWeb, [offset |-> offset, value |-> Head(bytes)])],
             offset + 1, Tail(bytes))

\* writeBytes, called by the tree's edit dialog with the bytes of one field
HostWriteBytes ==
    /\ ed.ops < MaxOps
    /\ \E offset \in 0 .. Len(doc.d.data) - 1, size \in 1 .. Len(doc.d.data) :
          /\ offset + size <= Len(doc.d.data)
          /\ Len(ed.toWeb) + size <= MaxInFlight
          /\ \E bytes \in [1 .. size -> DocVals] :
                LET s == writeBytesLoop([d |-> doc.d, toWeb |-> ed.toWeb],
                                        offset, bytes)
                IN  /\ doc' = [doc EXCEPT !.d = s.d]
                    /\ ed' = refreshFromBuffer(
                                UserOp([ed EXCEPT !.toWeb = s.toWeb]), s.d.data)
    /\ ElfIdle

\* saveCustomDocument
HostSave ==
    /\ ed.ops < MaxOps
    /\ doc' = [doc EXCEPT !.d = save(@), !.file = doc.d.data,
                          !.saved = doc.d.data]
    /\ ed' = UserOp(ed)
    /\ ElfIdle

\* revertCustomDocument: the file is read again and the page is loaded anew.
\* What the host then does with its undo stack is not the extension's code:
\* it keeps it or drops it.
HostRevert ==
    /\ ed.ops < MaxOps
    /\ doc' = [doc EXCEPT !.d.data = doc.file, !.loaded = doc.file,
                          !.reverted = TRUE]
    /\ \E keep \in BOOLEAN :
          ed' = refreshFromBuffer(
                   UserOp([ed EXCEPT
                       !.web = NewWebview(doc.file),
                       !.undoStack = IF keep THEN @ ELSE <<>>,
                       !.redoStack = IF keep THEN @ ELSE <<>>]),
                   doc.file)
    /\ ElfIdle

NextEditor ==
    \/ WebClick
    \/ WebClickOutside
    \/ WebKeyDown
    \/ WebUpdateByte
    \/ HostEdit
    \/ HostUndo
    \/ HostRedo
    \/ HostWriteBytes
    \/ HostSave
    \/ HostRevert

SpecEditor == InitEditor /\ [][NextEditor]_vars

-----------------------------------------------------------------------------
(* The webview script alone, on a file of more than one row: nothing takes   *)
(* the posted messages, so toHost holds every message posted so far.         *)

WebFile == [i \in 1 .. COLS + 1 |-> (37 * i) % 256]

InitWebview ==
    /\ doc = NoDoc
    /\ ed = [web |-> NewWebview(WebFile), toHost |-> <<>>, toWeb |-> <<>>,
             undoStack |-> <<>>, redoStack |-> <<>>, decoded |-> <<>>,
             ops |-> 0]
    /\ ui = NoClicks
    /\ ParseIdle

NextWebview ==
    \/ WebClick
    \/ WebClickOutside
    \/ WebKeyDown

SpecWebview == InitWebview /\ [][NextWebview]_vars

-----------------------------------------------------------------------------
(* The tree view's command elf-explorer.itemClicked (extension.ts), with the *)
(* editor open on EdFile.  ui is the record                                  *)
(*   lastClickedItemId, lastClickTime   the handler's module variables       *)
(*   now        the clock, in ms                                             *)
(*   highlight  the span of the last highlight message sent, if any          *)
(*   opened     whether the last click opened the edit dialog                *)
(*   log        the clicks so far, oldest first: item and time               *)

DOUBLE_CLICK_MS == 400
MaxClicks == 3                   \* clicks explored
ClickGaps == {1, 399, 400}       \* ms between one click and the next

\* items of the tree with a span: two editable fields and their container
TreeItems ==
    { [uniqueId |-> "e_ident", fileOffset |-> 0, fileSize |-> 2, isEditable |-> FALSE],
      [uniqueId |-> "class", fileOffset |-> 0, fileSize |-> 1, isEditable |-> TRUE],
      [uniqueId |-> "data", fileOffset |-> 1, fileSize |-> 1, isEditable |-> TRUE] }

\* readBytes: the bytes of the span that lie in the buffer
readBytes(d, offset, size) ==
    SubSeq(d.data, offset + 1, Min(offset + size, Len(d.data)))

\* the handler: ui after a click on item at time now
itemClicked(u, d, item, now) ==
    LET seen == [u EXCEPT !.now = now,
                          !.highlight = Some([offset |-> item.fileOffset,
                                              size |-> item.fileSize]),
                          !.opened = FALSE,
                          !.log = Append(@, [item |-> item, time |-> now])]
        isDoubleClick == /\ Some(item.uniqueId) = u.lastClickedItemId
                         /\ now - u.lastClickTime < DOUBLE_CLICK_MS
    IN  IF ~item.isEditable THEN seen
        ELSE IF isDoubleClick
        THEN [seen EXCEPT !.lastClickedItemId = Nothing,
                          !.lastClickTime = 0,
                          !.opened = readBytes(d, item.fileOffset, item.fileSize) # <<>>]
        ELSE [seen EXCEPT !.lastClickedItemId = Some(item.uniqueId),
                          !.lastClickTime = now]

InitClicks ==
    /\ doc = [d |-> NewDocument(EdFile), file |-> EdFile, loaded |-> EdFile,
              saved |-> EdFile, reverted |-> FALSE, ret |-> Undefined]
    /\ ed = [web |-> NewWebview(EdFile), toHost |-> <<>>, toWeb |-> <<>>,
             undoStack |-> <<>>, redoStack |-> <<>>, decoded |-> EdFile,
             ops |-> 0]
    /\ \E start \in {1000, 1399} :
          ui = [lastClickedItemId |-> Nothing, lastClickTime |-> 0,
                now |-> start, highlight |-> Nothing, opened |-> FALSE,
                log |-> <<>>]
    /\ ParseIdle

ItemClicked ==
    /\ Len(ui.log) < MaxClicks
    /\ \E item \in TreeItems, gap \in ClickGaps :
          ui' = itemClicked(ui, doc.d, item, ui.now + gap)
    /\ UNCHANGED <<doc, ed, tree, data, pc, outcome, rd, call, parseVars>>

NextClicks == ItemClicked

SpecClicks == InitClicks /\ [][NextClicks]_vars

-----------------------------------------------------------------------------
(* Properties of the document and the editor.                                *)

\* C24: every operation that changes the open document's bytes (an edit
\* message, an undo, a redo, a writeBytes call, a revert) ends with an edit
\* notification carrying the document's current buffer, which the tree
\* provider decodes afresh before any further operation: no step changes the
\* buffer or the edit log without the decoded buffer becoming the document's.
C24_ChangeIsDecoded ==
    [][(doc'.d.data # doc.d.data \/ doc'.d._edits # doc.d._edits)
          => ed'.decoded = doc'.d.data]_vars

\* edits, an undo and a redo have changed the bytes and the tree has decoded them
C24_Witness ==
    /\ ed # NoEditor
    /\ ed.undoStack # <<>>
    /\ ed.toWeb # <<>>
    /\ doc.d.data # doc.loaded
    /\ ed.decoded = doc.d.data

\* C30: with the cursor on offset o, the first hex digit typed replaces the
\* high nibble of byte o and keeps the low nibble, the second replaces the
\* low nibble and keeps the high nibble, and after the second digit the
\* cursor moves to o+1 when o < fileSize-1; every digit posts exactly one edit
\* message carrying the resulting byte; any cursor move (arrow, Tab, click,
\* Escape) resets the nibble phase to high; the editing offset is always -1
\* or within [0, fileSize).  Stated for every key in every state reached.
C30_HexTyping ==
    ed # NoEditor =>
        LET w == ed.web
            o == w.editingOffset
        IN  /\ o = -1 \/ (0 <= o /\ o < w.fileSize)
            /\ \A i \in 0 .. w.fileSize - 1 : startEdit(w, i).editNibble = 0
            /\ \A e \in Keys :
                  LET r == keydown(w, e)
                      w2 == r.web
                  IN  /\ IF o >= 0 /\ KeyDigit(e.key) # Undefined
                         THEN LET old == w.bytes[o + 1]
                                  new == w2.bytes[o + 1]
                              IN  /\ w.editNibble = 0 =>
                                        /\ new \div 16 = KeyDigit(e.key)
                                        /\ new % 16 = old % 16
                                        /\ w2.editNibble = 1
                                        /\ w2.editingOffset = o
                                  /\ w.editNibble = 1 =>
                                        /\ new % 16 = KeyDigit(e.key)
                                        /\ new \div 16 = old \div 16
                                        /\ w2.editNibble = 0
                                        /\ w2.editingOffset =
                                              IF o < w.fileSize - 1 THEN o + 1 ELSE o
                                  /\ \A i \in 1 .. w.fileSize :
                                        i # o + 1 => w2.bytes[i] = w.bytes[i]
                                  /\ r.post = << [offset |-> o, newValue |-> new] >>
                         ELSE r.post = <<>> /\ w2.bytes = w.bytes
                      /\ w2.editingOffset # o => w2.editNibble = 0
                      /\ e.key = "Escape" =>
                            w2.editingOffset = -1 /\ w2.editNibble = 0

\* both nibbles of the last byte of the first row were typed: the cursor has
\* advanced to the second row and two messages were posted
C30_Witness ==
    /\ ed # NoEditor
    /\ doc = NoDoc
    /\ ed.web.editingOffset = COLS
    /\ ed.web.editNibble = 0
    /\ ed.web.bytes[COLS] = 204
    /\ ed.toHost = << [offset |-> COLS - 1, newValue |-> 192],
                      [offset |-> COLS - 1, newValue |-> 204] >>

RECURSIVE OpensDialog(_)
\* whether the last click of log is a second click in the sense of C25: on an
\* editable item, less than 400 ms after the click before it, which was on
\* the same item and was itself a first click
OpensDialog(log) ==
    LET n == Len(log)
    IN  /\ n >= 2
        /\ log[n].item.isEditable
        /\ log[n - 1].item = log[n].item
        /\ log[n].time - log[n - 1].time < 400
        /\ ~OpensDialog(SubSeq(log, 1, n - 1))

\* C25: each click on an item with a non-zero span sends a highlight for
\* that span; the edit dialog opens exactly when an editable item is clicked
\* a second time less than 400 ms after a first click on that same item with
\* no click on a different item in between; after a double-click has opened
\* the dialog the next click on the item counts as a first click again.
C25_DialogOnSecondClick ==
    (ui # NoClicks /\ ui.log # <<>>) =>
        LET item == ui.log[Len(ui.log)].item
        IN  /\ ui.highlight = Some([offset |-> item.fileOffset,
                                    size |-> item.fileSize])
            /\ ui.opened <=> OpensDialog(ui.log)

\* C27: once all posted messages are delivered the webview's byte array
\* equals the document's buffer at every offset; in particular the edit an
\* undo takes back in the document is the one whose offset and old byte it
\* posts to the webview.
C27_WebviewEqualsDocument ==
    ed # NoEditor =>
        /\ (ed.toHost = <<>> /\ ed.toWeb = <<>>) => ed.web.bytes = doc.d.data
        /\ ed.undoStack # <<>> =>
              /\ doc.d._edits # <<>>
              /\ doc.d._edits[Len(doc.d._edits)] = ed.undoStack[Len(ed.undoStack)]

\* C28: after any sequence of applyEdit, undoEdit and save, isDirty is false
\* only if the buffer equals, byte for byte, the content at the last save, or
\* the content loaded at construction when nothing was saved.
C28_CleanMeansSaved ==
    (doc # NoDoc /\ ~doc.reverted /\ ~isDirty(doc.d)) => doc.d.data = doc.saved

RECURSIVE UndoAll(_)
\* the document after one undoEdit per logged edit
UndoAll(d) == IF d._edits = <<>> THEN d ELSE UndoAll(undoEdit(d))

\* C29: the edit log describes the difference between the buffer and the
\* content last loaded from the file: one undoEdit per logged edit yields the
\* loaded content; applyEdit followed at once by undoEdit leaves buffer and
\* log unchanged; undoEdit on an empty log changes nothing and returns
\* undefined.
C29_LogLeadsBackToLoaded ==
    doc # NoDoc =>
        /\ UndoAll(doc.d).data = doc.loaded
        /\ \A offset \in 0 .. DocLen - 1, newValue \in DocVals :
              undoEdit(applyEdit(doc.d, offset, newValue)) = doc.d
        /\ doc.d._edits = <<>> =>
              undoEdit(doc.d) = doc.d /\ undoEditResult(doc.d) = Undefined

\* C26: the decode terminates and its work is bounded by the buffer, not by
\* declared sizes: no table has more entries than the buffer has bytes, and
\* the body of the string-table walk runs at most once per byte of the
\* buffer, each run moving pos forward.
C26_WorkBoundedByBuffer ==
    (pc \in {"done", "shown"} /\ outcome = "Decoded") =>
        /\ \A k \in 1 .. Len(symbols) : Len(symbols[k].symbols) <= Len(data)
        /\ Len(dynamicEntries) <= Len(data)
        /\ \A k \in 1 .. Len(relocations) : Len(relocations[k].entries) <= Len(data)
        /\ \A k \in 1 .. Len(sectionHeaders) :
              IsType(sectionHeaders[k], 3) =>
                  StrIterations(data, Num(sectionHeaders[k].offset),
                                Num(sectionHeaders[k].offset)
                                    + Num(sectionHeaders[k].size)) <= Len(data)

====
